---------------------------- MODULE Spec2Model ----------------------------
(***************************************************************************)
(* MIVES scoring engine: the exponential value function                    *)
(* (logic/math_engine.py), the weighted tree aggregation, the absolute     *)
(* weight and the weight validator (logic/data_manager.py,                 *)
(* logic/tree_utils.py).                                                   *)
(*                                                                         *)
(* Numbers.  Python floats are modelled by exact rationals <<num, den>>    *)
(* (den > 0, lowest terms).  The rate K is taken in units of ln 2, so      *)
(* that math.exp(-K * t) is the dyadic rational 2^(-K*t) whenever K*t is   *)
(* an integer; the scale C is taken in units of 1/CScale.  The limits of   *)
(* the IEEE double that the code can observe are kept: math.pow raises     *)
(* OverflowError past 2^1024, math.exp raises OverflowError past 2^1024    *)
(* and underflows to 0.0 below 2^-1074, and 1.0 - 2^-e rounds to 1.0 once  *)
(* e exceeds the 53-bit significand.                                       *)
(***************************************************************************)
EXTENDS Integers, Sequences, FiniteSets, TLC

VARIABLES x_sat_0, x_sat_1, C, K, P, curve,
          tree, input_values, scenario_scores, style_opts, op, ret,
          weight_cache

vf_vars == <<x_sat_0, x_sat_1, C, K, P, curve>>
\* what the caller hands to the operations on the tree
args == <<tree, input_values, scenario_scores, style_opts>>
tree_vars == <<tree, input_values, scenario_scores, style_opts, op, ret>>
\* TreeItemCache._weight_cache
cache_vars == <<weight_cache>>
vars == <<x_sat_0, x_sat_1, C, K, P, curve,
          tree, input_values, scenario_scores, style_opts, op, ret,
          weight_cache>>

(***************************************************************************)
(* Bounds of the model.                                                    *)
(***************************************************************************)
\* raw indicator values and saturation points range over 0..MaxX
MaxX == 3

(***************************************************************************)
(* Exact rational arithmetic standing for float arithmetic.                *)
(***************************************************************************)
Abs(n) == IF n < 0 THEN -n ELSE n

RECURSIVE GCD(_, _)
GCD(a, b) == IF b = 0 THEN a ELSE GCD(b, a % b)

Norm(n, d) ==
    LET g == GCD(Abs(n), Abs(d))
        s == IF d < 0 THEN -1 ELSE 1
    IN  IF n = 0 THEN <<0, 1>> ELSE <<s * (n \div g), s * (d \div g)>>

Zero == <<0, 1>>
One == <<1, 1>>
RInt(n) == <<n, 1>>

RNeg(a) == <<-a[1], a[2]>>
RAbs(a) == <<Abs(a[1]), a[2]>>
RAdd(a, b) ==
    LET g == GCD(a[2], b[2])
    IN  Norm(a[1] * (b[2] \div g) + b[1] * (a[2] \div g), (a[2] \div g) * b[2])
RSub(a, b) == RAdd(a, RNeg(b))
\* cross-reduced before multiplying, so that the factors stay small
RMul(a, b) ==
    LET g1 == GCD(Abs(a[1]), b[2])
        g2 == GCD(Abs(b[1]), a[2])
    IN  IF a[1] = 0 \/ b[1] = 0 THEN Zero
        ELSE Norm((a[1] \div g1) * (b[1] \div g2), (a[2] \div g2) * (b[2] \div g1))
RInv(a) == IF a[1] < 0 THEN <<-a[2], -a[1]>> ELSE <<a[2], a[1]>>
RDiv(a, b) == RMul(a, RInv(b))

\* a/b < c/d for a, c >= 0 and b, d > 0, by continued fractions: no product
\* is formed, so the comparison cannot leave the integer range
RECURSIVE LessPos(_, _, _, _)
LessPos(a, b, c, d) ==
    LET qa == a \div b
        qc == c \div d
        ra == a % b
        rc == c % d
    IN  IF qa # qc THEN qa < qc
        ELSE IF rc = 0 THEN FALSE
        ELSE IF ra = 0 THEN TRUE
        ELSE LessPos(d, rc, b, ra)

RLess(a, b) ==
    IF a[1] < 0 /\ b[1] >= 0 THEN TRUE
    ELSE IF a[1] >= 0 /\ b[1] < 0 THEN FALSE
    ELSE IF a[1] >= 0 THEN LessPos(a[1], a[2], b[1], b[2])
    ELSE LessPos(-b[1], b[2], -a[1], a[2])
RLeq(a, b) == ~RLess(b, a)
RMin(a, b) == IF RLess(b, a) THEN b ELSE a
RMax(a, b) == IF RLess(a, b) THEN b ELSE a

RECURSIVE Pow2(_)
Pow2(e) == IF e = 0 THEN 1 ELSE 2 * Pow2(e - 1)

(***************************************************************************)
(* ValueFunction: MivesLogic.calculate_mives_value                         *)
(***************************************************************************)
\* C is held in units of 1/CScale, so that the clamp value 0.0001 is 1
CScale == 10000
\* "if C <= 0.0001: C = 0.0001"
CMin == 1
\* "abs(1.0 - phi_max) < 1e-9"
Eps == <<1, 1000000000>>
\* IEEE double: results of 2^1024 and more are a range error
DblMaxExp == 1024
\* IEEE double: 2^-1075 and less round to 0.0
DblMinExp == 1075
\* IEEE double: 1.0 - 2^-e rounds to 1.0 for e above the 53-bit significand
DblMantissa == 53
\* exponent terms are saturated here; far beyond every limit above
ExpCap == Pow2(20)
\* the exponent terms e whose 2^e the model's integers hold exactly
ExactExps == 0..30

Caught == {"ValueError", "OverflowError"}
Returned(v) == [exc |-> "none", val |-> v]
Raised(e) == [exc |-> e, val |-> <<0, 1>>]

RECURSIVE Log2Floor(_)
Log2Floor(r) == IF r < 2 THEN 0 ELSE 1 + Log2Floor(r \div 2)

SatTimes(a, b) ==
    IF a = 0 \/ b = 0 THEN 0
    ELSE IF Abs(a) > ExpCap \div Abs(b)
         THEN (IF (a < 0) = (b < 0) THEN ExpCap ELSE -ExpCap)
    ELSE a * b

RECURSIVE PowAcc(_, _, _)
PowAcc(r, p, acc) ==
    IF p = 0 \/ acc >= ExpCap THEN acc ELSE PowAcc(r, p - 1, SatTimes(acc, r))

\* math.pow(r, p) for r >= 0 and integral p >= 0, saturated at ExpCap
PowSat(r, p) == IF p = 0 THEN 1 ELSE IF r <= 1 THEN r ELSE PowAcc(r, p, 1)

\* the exponent e with  math.exp(-K * math.pow(dist / C, P)) = 2^(-e),
\* or the exception that the expression raises
PhiTerm(dist, c, k, p) ==
    IF c = 0 THEN [exc |-> "ZeroDivisionError", e |-> 0]
    ELSE LET r == (dist * CScale) \div c
         IN  IF r = 0 /\ p < 0 THEN [exc |-> "ValueError", e |-> 0]
             ELSE IF r > 1 /\ p * Log2Floor(r) >= DblMaxExp
                  THEN [exc |-> "OverflowError", e |-> 0]
             ELSE LET e == SatTimes(k, PowSat(r, p))
                  IN  IF -e >= DblMaxExp
                      THEN [exc |-> "OverflowError", e |-> 0]
                      ELSE [exc |-> "none", e |-> e]

\* the float 1.0 - 2^(-e)
OneMinusPhi(e) ==
    IF e >= DblMinExp THEN One
    ELSE IF e > DblMantissa THEN One
    ELSE IF e >= 0 THEN <<Pow2(e) - 1, Pow2(e)>>
    ELSE <<1 - Pow2(-e), 1>>

\* no term of the evaluation falls between the exact and the rounded range
Representable(e) == Abs(e) \in ExactExps \/ e > DblMantissa

\* the clamp applied to negative C only
ClampCNegativeOnly(c) == IF c < 0 THEN CMin ELSE c

ClampC(c) == IF c <= CMin THEN CMin ELSE c

FactorB(dist_max, c, k, p) ==
    LET t == PhiTerm(dist_max, c, k, p)
        d == OneMinusPhi(t.e)
    IN  IF t.exc \in Caught THEN Returned(One)
        ELSE IF t.exc # "none" THEN Raised(t.exc)
        ELSE IF RLess(RAbs(d), Eps) THEN Returned(One)
        ELSE IF d = Zero THEN Raised("ZeroDivisionError")
        ELSE Returned(RInv(d))

\* B * phi_x in place of B * (1.0 - phi_x)
ValueOfPhi(dist_x, c, k, p, B) ==
    LET t == PhiTerm(dist_x, c, k, p)
    IN  IF t.exc \in Caught THEN Returned(Zero)
        ELSE IF t.exc # "none" THEN Raised(t.exc)
        ELSE Returned(RMul(B, RSub(One, OneMinusPhi(t.e))))

Value(dist_x, c, k, p, B) ==
    LET t == PhiTerm(dist_x, c, k, p)
    IN  IF t.exc \in Caught THEN Returned(Zero)
        ELSE IF t.exc # "none" THEN Raised(t.exc)
        ELSE Returned(RMul(B, OneMinusPhi(t.e)))

\* "Direction Logic": which early return, if any, the call takes
SaturationFlipped(x, x0, x1) ==
    IF x1 > x0
    THEN (IF x <= x0 THEN "zero" ELSE IF x >= x1 THEN "one" ELSE "inside")
    ELSE (IF x >= x0 THEN "one" ELSE IF x <= x1 THEN "zero" ELSE "inside")

Saturation(x, x0, x1) ==
    IF x1 > x0
    THEN (IF x <= x0 THEN "zero" ELSE IF x >= x1 THEN "one" ELSE "inside")
    ELSE (IF x >= x0 THEN "zero" ELSE IF x <= x1 THEN "one" ELSE "inside")

calculate_mives_value(x, x0, x1, c, k, p) ==
    LET dist_x == Abs(x - x0)
        dist_max == Abs(x1 - x0)
        sat == Saturation(x, x0, x1)
        cc == ClampC(c)
        B == FactorB(dist_max, cc, k, p)
        value == Value(dist_x, cc, k, p, B.val)
    IN  IF sat = "zero" THEN Returned(Zero)
        ELSE IF sat = "one" THEN Returned(One)
        ELSE IF B.exc # "none" THEN Raised(B.exc)
        ELSE IF value.exc # "none" THEN Raised(value.exc)
        ELSE Returned(RMax(Zero, RMin(One, value.val)))

(***************************************************************************)
(* Inputs of the value function.                                           *)
(***************************************************************************)
XVals == 0..MaxX
\* C = -1, 0, 0.0001, 0.5, 1
CVals == {-CScale, 0, CMin, CScale \div 2, CScale}
\* K = -ln 2, 0, ln 2, 2 ln 2, 60 ln 2
KVals == {-1, 0, 1, 2, 60}
PVals == {0, 1, 2, 2000}

InRange(x, x0, x1) == (x0 < x /\ x < x1) \/ (x1 < x /\ x < x0)

TermOf(x, x0, c, k, p) == PhiTerm(Abs(x - x0), ClampC(c), k, p)

InGrid(x0, x1, c, k, p) ==
    \A x \in XVals \cup {x1} :
        LET t == TermOf(x, x0, c, k, p)
        IN  t.exc = "none" => Representable(t.e)

NoCurve == [x \in {} |-> Returned(Zero)]
NoTree == [n |-> 0]
\* "self._weight_cache: Dict[Any, float] = {}"
NoCache == [uid \in {} |-> Zero]

VFInit ==
    /\ x_sat_0 \in XVals /\ x_sat_1 \in XVals
    /\ C \in CVals /\ K \in KVals /\ P \in PVals
    /\ InGrid(x_sat_0, x_sat_1, C, K, P)
    /\ curve = NoCurve /\ weight_cache = NoCache
    /\ tree = NoTree /\ input_values = NoCurve /\ op = "none" /\ ret = NoCurve
    /\ scenario_scores = NoCurve /\ style_opts = NoCurve

\* one call  calculate_mives_value(x, x_sat_0, x_sat_1, C, K, P)
Evaluate(x) ==
    /\ x \notin DOMAIN curve
    /\ curve' = curve @@ (x :> calculate_mives_value(x, x_sat_0, x_sat_1, C, K, P))
    /\ UNCHANGED <<x_sat_0, x_sat_1, C, K, P, tree_vars, cache_vars>>

VFNext == \E x \in XVals : Evaluate(x)

VFSpec == VFInit /\ [][VFNext]_vars

(***************************************************************************)
(* The tree.  A QTreeWidgetItem tree is held as                            *)
(*   tree.n        number of items; item 1 is the root item               *)
(*   tree.parent   item.parent(), 0 for None; the children of an item in   *)
(*                 child order are the items naming it, by index           *)
(*   tree.text0    item.text(0) up to its ':', the simplified id that      *)
(*                 renumber_nodes gives the item                           *)
(*   tree.text1    item.text(1), the weight text, a sequence of characters *)
(*   tree.text2    item.text(2), the type text                             *)
(*   tree.data1    item.data(1, UserRole), the function parameters (dict)  *)
(* item.data(0, UserRole), the uuid4 of the item, is the item's index.     *)
(* op is the position of the caller: "none" before its call of an engine   *)
(* operation on the tree, the name of the operation after it; ret is what  *)
(* the call returned.                                                      *)
(***************************************************************************)
\* items of a tree
MaxNodes == 4

Nodes(t) == 1..t.n

RECURSIVE ChildrenFrom(_, _, _)
ChildrenFrom(t, i, j) ==
    IF j > t.n THEN << >>
    ELSE IF t.parent[j] = i THEN <<j>> \o ChildrenFrom(t, i, j + 1)
    ELSE ChildrenFrom(t, i, j + 1)

\* item.child(0), ..., item.child(item.childCount() - 1)
Children(t, i) == ChildrenFrom(t, i, 1)

RECURSIVE Depth(_, _)
Depth(t, i) == IF t.parent[i] = 0 THEN 0 ELSE 1 + Depth(t, t.parent[i])

\* the items below and including i, parents before children, in child order
RECURSIVE Preorder(_, _)
RECURSIVE PreorderAll(_, _)
Preorder(t, i) == <<i>> \o PreorderAll(t, Children(t, i))
PreorderAll(t, kids) ==
    IF kids = << >> THEN << >>
    ELSE Preorder(t, Head(kids)) \o PreorderAll(t, Tail(kids))

\* BuilderTab.renumber_nodes: "MIVES Index" for the Root, the first letter of
\* the type and a running count per type for the items of the three other
\* types, and the custom name alone for an item of any other type text
renumber_nodes(t) ==
    LET order == Preorder(t, 1)
        pos(i) == CHOOSE q \in 1..Len(order) : order[q] = i
        count(i) == Cardinality({q \in 1..pos(i) : t.text2[order[q]] = t.text2[i]})
        prefix(i) == IF t.text2[i] = "Criterion" THEN "C"
                     ELSE IF t.text2[i] = "Requirement" THEN "R" ELSE "I"
    IN  [t EXCEPT !.text0 = [i \in 1..t.n |->
             IF t.text2[i] = "Root" THEN <<"MIVES Index">>
             ELSE IF t.text2[i] \in {"Requirement", "Criterion", "Indicator"}
                  THEN <<prefix(i), count(i)>>
             ELSE IF "custom_name" \in DOMAIN t.data1[i]
                  THEN <<t.data1[i]["custom_name"]>>
             ELSE <<"Elem">>]]

(***************************************************************************)
(* float(text): sign, digits, at most one decimal point, at least one      *)
(* digit.  (Python also reads exponents, blanks, underscores, "inf" and    *)
(* "nan"; the texts of the model do not use them.)                         *)
(***************************************************************************)
DigitChars == <<"0", "1", "2", "3", "4", "5", "6", "7", "8", "9">>
Digits == {DigitChars[i] : i \in 1..10}
DigitVal(c) == (CHOOSE i \in 1..10 : DigitChars[i] = c) - 1
IsDigit(c) == c \in Digits
IsDot(c) == c = "."
NotPercent(c) == c # "%"

RECURSIVE NatOf(_)
NatOf(ds) ==
    IF ds = << >> THEN 0
    ELSE 10 * NatOf(SubSeq(ds, 1, Len(ds) - 1)) + DigitVal(ds[Len(ds)])

RECURSIVE Pow10(_)
Pow10(e) == IF e = 0 THEN 1 ELSE 10 * Pow10(e - 1)

\* number of digits behind the decimal point
RECURSIVE FracDigits(_)
FracDigits(s) ==
    IF s = << >> THEN 0
    ELSE IF IsDot(s[Len(s)]) THEN 0
    ELSE 1 + FracDigits(SubSeq(s, 1, Len(s) - 1))

ParseFloat(text) ==
    LET signed == Len(text) > 0 /\ text[1] \in {"-", "+"}
        body == IF signed THEN SubSeq(text, 2, Len(text)) ELSE text
        ds == SelectSeq(body, IsDigit)
        dots == Len(SelectSeq(body, IsDot))
        ok == /\ \A i \in 1..Len(body) : IsDigit(body[i]) \/ IsDot(body[i])
              /\ dots <= 1
              /\ Len(ds) >= 1
        mag == IF dots = 0 THEN RInt(NatOf(ds))
               ELSE Norm(NatOf(ds), Pow10(FracDigits(body)))
    IN  IF ~ok THEN [exc |-> "ValueError", val |-> Zero]
        ELSE IF signed /\ text[1] = "-" THEN [exc |-> "none", val |-> RNeg(mag)]
        ELSE [exc |-> "none", val |-> mag]

\* text.replace('%', '')
StripPercent(text) == SelectSeq(text, NotPercent)

Hundred == RInt(100)

(***************************************************************************)
(* TreeAggregator: MivesLogic.calculate_tree_scores_from_tree_item         *)
(***************************************************************************)
\* d.get(key, default)
Get(d, key, default) == IF key \in DOMAIN d THEN d[key] ELSE default

\* d[key] = v
Put(d, key, v) == [q \in DOMAIN d \cup {key} |-> IF q = key THEN v ELSE d[q]]

NoFData == [q \in {} |-> 0]
NoScores == [q \in {} |-> Zero]

\* f_data.get('c', 100), in units of 1/CScale
DefaultC == 100 * CScale
\* f_data.get('k', 0.1): 0.1 in natural units, not a multiple of ln 2; an
\* indicator left at its defaults is evaluated only where it saturates
DefaultK == <<1, 10>>

\* "try: w = float(child.text(1).replace('%',''))/100.0  except: w = 0.0"
\* with a failed parse counted as full weight
ChildWeightOrOne(text) ==
    LET f == ParseFloat(StripPercent(text))
    IN  IF f.exc # "none" THEN One ELSE RDiv(f.val, Hundred)

ChildWeight(text) ==
    LET f == ParseFloat(StripPercent(text))
    IN  IF f.exc # "none" THEN Zero ELSE RDiv(f.val, Hundred)

\* "final = total_score / total_weight if total_weight > 0 else 0"
\* without the renormalisation
FinalUnnormalised(total_score, total_weight) ==
    IF RLess(Zero, total_weight) THEN total_score ELSE Zero

\* a group without weight counted as fully satisfied
FinalOneIfNoWeight(total_score, total_weight) ==
    IF RLess(Zero, total_weight) THEN RDiv(total_score, total_weight) ELSE One

Final(total_score, total_weight) ==
    IF RLess(Zero, total_weight) THEN RDiv(total_score, total_weight) ELSE Zero

\* input_values.get(uid, x0) with the lookup result ignored when present
InputValueOrZero(iv, uid, x0) == IF uid \in DOMAIN iv THEN iv[uid] ELSE 0

\* "val = input_values.get(uid, x0)"
InputValue(iv, uid, x0) == IF uid \in DOMAIN iv THEN iv[uid] ELSE x0

\* the Indicator branch of process(item)
IndicatorScore(t, iv, item) ==
    LET f_data == t.data1[item]
        x0 == Get(f_data, "xmin", 0)
        x1 == Get(f_data, "xmax", 100)
        c == Get(f_data, "c", DefaultC)
        k == Get(f_data, "k", DefaultK)
        p == Get(f_data, "p", 1)
        val == InputValue(iv, item, x0)
    IN  calculate_mives_value(val, x0, x1, c, k, p)

\* an Indicator item that does not descend into item.child(i)
IsLeafCase(t, item) == t.text2[item] = "Indicator"

RECURSIVE process(_, _, _, _)
RECURSIVE ProcessChildren(_, _, _, _)

\* the loop "for i in range(item.childCount())" over the remaining children
ProcessChildren(t, iv, kids, acc) ==
    IF kids = << >> \/ acc.exc # "none" THEN acc
    ELSE LET child == Head(kids)
             w == ChildWeight(t.text1[child])
             r == process(t, iv, child, acc.scores)
         IN  ProcessChildren(t, iv, Tail(kids),
                 [exc |-> r.exc,
                  total_score |-> RAdd(acc.total_score, RMul(r.sat, w)),
                  total_weight |-> RAdd(acc.total_weight, w),
                  scores |-> r.scores])

\* process(item): the score returned and the scores dict after the call
process(t, iv, item, scores) ==
    IF IsLeafCase(t, item)
    THEN LET r == IndicatorScore(t, iv, item)
         IN  IF r.exc # "none"
             THEN [exc |-> r.exc, sat |-> Zero, scores |-> scores]
             ELSE [exc |-> "none", sat |-> r.val, scores |-> Put(scores, item, r.val)]
    ELSE LET acc == ProcessChildren(t, iv, Children(t, item),
                        [exc |-> "none", total_score |-> Zero,
                         total_weight |-> Zero, scores |-> scores])
             final == Final(acc.total_score, acc.total_weight)
         IN  IF acc.exc # "none"
             THEN [exc |-> acc.exc, sat |-> Zero, scores |-> acc.scores]
             ELSE [exc |-> "none", sat |-> final, scores |-> Put(acc.scores, item, final)]

calculate_tree_scores_from_tree_item(t, iv) ==
    IF t.n = 0 THEN [exc |-> "none", scores |-> NoScores]
    ELSE LET r == process(t, iv, 1, NoScores)
         IN  [exc |-> r.exc, scores |-> r.scores]

(***************************************************************************)
(* Trees for scoring.  Each item below the root takes one profile: its     *)
(* weight text, whether its type text is "Indicator", its function         *)
(* parameters and its entry of input_values (<< >>: no entry).             *)
(***************************************************************************)
Txt60 == <<"6", "0", "%">>
Txt40 == <<"4", "0", "%">>
Txt30 == <<"3", "0", "%">>
Txt0 == <<"0", "%">>
Txt100 == <<"1", "0", "0">>
TxtAbc == <<"a", "b", "c">>
TxtEmpty == << >>
TxtMinus50 == <<"-", "5", "0", "%">>
Txt999 == <<"9", "9", ".", "9", "%">>

\* increasing, C = 1, K = ln 2, P = 1
FInc == [xmin |-> 0, xmax |-> 2, c |-> CScale, k |-> 1, p |-> 1]
\* decreasing, C = 0 (clamped), K = 60 ln 2, P = 2
FDec == [xmin |-> 2, xmax |-> 0, c |-> 0, k |-> 60, p |-> 2]
\* zero range, C = 0.5, K = 0, P = 0
FZero == [xmin |-> 1, xmax |-> 1, c |-> CScale \div 2, k |-> 0, p |-> 0]

Profile(w, ind, fd, inp) == [w |-> w, ind |-> ind, fd |-> fd, inp |-> inp]

Profiles ==
    { Profile(Txt60, TRUE, FInc, <<1>>),
      Profile(Txt40, TRUE, FInc, <<2>>),
      Profile(Txt40, TRUE, FDec, << >>),
      Profile(Txt60, FALSE, NoFData, << >>),
      Profile(Txt40, FALSE, NoFData, << >>),
      Profile(TxtAbc, TRUE, FInc, <<2>>),
      Profile(TxtEmpty, FALSE, NoFData, << >>),
      Profile(TxtMinus50, TRUE, FInc, << >>),
      Profile(Txt0, TRUE, FZero, << >>),
      Profile(Txt100, TRUE, NoFData, << >>) }

\* Root, Requirement, Criterion, Indicator: the levels below the root item
MaxDepth == 3

RECURSIVE DepthIn(_, _)
DepthIn(pv, i) == IF pv[i] = 0 THEN 0 ELSE 1 + DepthIn(pv, pv[i])

\* parent vectors of the trees with n items, items numbered level by level
ParentVectors(n) ==
    {pv \in [1..n -> 0..(n - 1)] :
        /\ pv[1] = 0
        /\ \A i \in 2..n : pv[i] \in 1..(i - 1)
        /\ \A i \in 3..n : pv[i - 1] <= pv[i]
        /\ \A i \in 1..n : DepthIn(pv, i) <= MaxDepth}

\* the type text the editor gives an item at depth d
TypeAtDepth(d) ==
    IF d = 0 THEN "Root" ELSE IF d = 1 THEN "Requirement"
    ELSE IF d = 2 THEN "Criterion" ELSE "Indicator"

GroupType(d) == IF d >= MaxDepth THEN "Criterion" ELSE TypeAtDepth(d)

ScoreTree(pv, pr) ==
    LET n == Len(pv)
    IN  renumber_nodes(
        [n |-> n,
         parent |-> pv,
         text0 |-> [i \in 1..n |-> << >>],
         text1 |-> [i \in 1..n |-> IF i = 1 THEN Txt100 ELSE pr[i].w],
         text2 |-> [i \in 1..n |-> IF i = 1 THEN "Root"
                                   ELSE IF pr[i].ind THEN "Indicator"
                                   ELSE GroupType(DepthIn(pv, i))],
         data1 |-> [i \in 1..n |-> IF i = 1 THEN NoFData ELSE pr[i].fd]])

ScoreInputs(n, pr) ==
    LET given == {i \in 2..n : pr[i].inp # << >>}
    IN  [i \in given |-> pr[i].inp[1]]

ScoreInit ==
    /\ \E n \in 1..MaxNodes : \E pv \in ParentVectors(n) :
       \E pr \in [1..n -> Profiles] :
           /\ pr[1] = Profile(Txt60, FALSE, NoFData, << >>)
           /\ tree = ScoreTree(pv, pr)
           /\ input_values = ScoreInputs(n, pr)
    /\ scenario_scores = NoCurve /\ style_opts = NoCurve
    /\ op = "none" /\ ret = NoCurve
    /\ x_sat_0 = 0 /\ x_sat_1 = 0 /\ C = 0 /\ K = 0 /\ P = 0 /\ curve = NoCurve
    /\ weight_cache = NoCache

\* one call  calculate_tree_scores_from_tree_item(root_item, input_values)
CalculateTreeScores ==
    /\ op = "none"
    /\ op' = "scores"
    /\ ret' = calculate_tree_scores_from_tree_item(tree, input_values)
    /\ UNCHANGED <<args, vf_vars, cache_vars>>

ScoreNext == CalculateTreeScores

ScoreSpec == ScoreInit /\ [][ScoreNext]_vars

(***************************************************************************)
(* MivesLogic.calculate_absolute_weight_from_item                          *)
(***************************************************************************)
\* "try: weight = float(current.text(1).replace('%', '')) / 100.0
\*  except (ValueError, AttributeError): weights.append(1.0)"
LevelWeight(text) ==
    LET f == ParseFloat(StripPercent(text))
    IN  IF f.exc \in {"ValueError", "AttributeError"} THEN One
        ELSE RDiv(f.val, Hundred)

\* the list "weights", from the item up to the root item
RECURSIVE WeightsUp(_, _)
WeightsUp(t, current) ==
    IF current = 0 THEN << >>
    ELSE <<LevelWeight(t.text1[current])>> \o WeightsUp(t, t.parent[current])

RECURSIVE Product(_)
Product(ws) == IF ws = << >> THEN One ELSE RMul(Head(ws), Product(Tail(ws)))

\* the product taken over the whole list, the root's entry included
ProductWithRoot(weights) == Product(weights)

\* "for w in weights[:-1]: absolute_weight *= w"
ProductBelowRoot(weights) ==
    IF weights = << >> THEN One
    ELSE Product(SubSeq(weights, 1, Len(weights) - 1))

calculate_absolute_weight_from_item(t, item) ==
    ProductBelowRoot(WeightsUp(t, item))

(***************************************************************************)
(* tree_utils.get_local_weight_fast and DataManager.validate_weights       *)
(***************************************************************************)
HasPercent(text) == \E i \in 1..Len(text) : text[i] = "%"

\* a text without '%' taken as the fraction itself
get_local_weight_fast_fraction(text) ==
    LET f == IF HasPercent(text) THEN ParseFloat(StripPercent(text))
             ELSE ParseFloat(text)
    IN  IF f.exc # "none" THEN Zero
        ELSE IF HasPercent(text) THEN RDiv(f.val, Hundred) ELSE f.val

\* the result clamped to [0, 1]
get_local_weight_fast_clamped(text) ==
    LET f == IF HasPercent(text) THEN ParseFloat(StripPercent(text))
             ELSE ParseFloat(text)
    IN  IF f.exc # "none" THEN Zero
        ELSE RMax(Zero, RMin(One, RDiv(f.val, Hundred)))

get_local_weight_fast(text) ==
    LET f == IF HasPercent(text) THEN ParseFloat(StripPercent(text))
             ELSE ParseFloat(text)
    IN  IF f.exc # "none" THEN Zero ELSE RDiv(f.val, Hundred)

\* "abs(total - 100.0) > 0.1"
Tolerance == <<1, 10>>

\* the condition with the child_count test left out
ViolatesAnyItem(child_count, total) ==
    RLess(Tolerance, RAbs(RSub(total, Hundred)))

\* "if child_count > 0 and abs(total - 100.0) > 0.1"
Violates(child_count, total) ==
    child_count > 0 /\ RLess(Tolerance, RAbs(RSub(total, Hundred)))

\* the entry f"{item.text(0)}: Children sum to {total}%"
Violation(item, total) == [item |-> item, total |-> total]

RECURSIVE check(_, _, _)
RECURSIVE CheckChildren(_, _, _)

\* the loop "for i in range(child_count)" over the remaining children
CheckChildren(t, kids, acc) ==
    IF kids = << >> THEN acc
    ELSE LET child == Head(kids)
         IN  CheckChildren(t, Tail(kids),
                 [total |-> RAdd(acc.total,
                                 RMul(get_local_weight_fast(t.text1[child]), Hundred)),
                  errors |-> check(t, child, acc.errors)])

\* check(item): the list "errors" after the call
check(t, item, errors) ==
    LET kids == Children(t, item)
        acc == CheckChildren(t, kids, [total |-> Zero, errors |-> errors])
    IN  IF Violates(Len(kids), acc.total)
        THEN Append(acc.errors, Violation(item, acc.total))
        ELSE acc.errors

validate_weights(t) == IF t.n = 0 THEN << >> ELSE check(t, 1, << >>)

(***************************************************************************)
(* Trees for the weight operations: every weight text is chosen freely,    *)
(* the type texts are those the editor gives.                              *)
(***************************************************************************)
WeightTexts == {Txt60, Txt40, Txt30, Txt100, TxtAbc, Txt999}
RootTexts == {Txt100, Txt60, TxtAbc}

WeightTree(pv, wt) ==
    LET n == Len(pv)
    IN  renumber_nodes(
        [n |-> n,
         parent |-> pv,
         text0 |-> [i \in 1..n |-> << >>],
         text1 |-> wt,
         text2 |-> [i \in 1..n |-> TypeAtDepth(DepthIn(pv, i))],
         data1 |-> [i \in 1..n |-> NoFData]])

WeightInit ==
    /\ \E n \in 1..MaxNodes : \E pv \in ParentVectors(n) :
       \E wt \in [1..n -> WeightTexts \cup RootTexts] :
           /\ wt[1] \in RootTexts
           /\ \A i \in 2..n : wt[i] \in WeightTexts
           /\ tree = WeightTree(pv, wt)
    /\ input_values = NoCurve
    /\ scenario_scores = NoCurve /\ style_opts = NoCurve
    /\ op = "none" /\ ret = NoCurve
    /\ x_sat_0 = 0 /\ x_sat_1 = 0 /\ C = 0 /\ K = 0 /\ P = 0 /\ curve = NoCurve
    /\ weight_cache = NoCache

\* one call  calculate_absolute_weight_from_item(item)
CalculateAbsoluteWeight(item) ==
    /\ op = "none"
    /\ op' = "absolute_weight"
    /\ ret' = [item |-> item,
               value |-> calculate_absolute_weight_from_item(tree, item)]
    /\ UNCHANGED <<args, vf_vars, cache_vars>>

\* one call  DataManager.validate_weights(tree_widget)
ValidateWeights ==
    /\ op = "none"
    /\ op' = "validate"
    /\ ret' = [errors |-> validate_weights(tree)]
    /\ UNCHANGED <<args, vf_vars, cache_vars>>

WeightNext ==
    \/ \E item \in Nodes(tree) : CalculateAbsoluteWeight(item)
    \/ ValidateWeights

WeightSpec == WeightInit /\ [][WeightNext]_vars

(***************************************************************************)
(* Weight texts.  A Root with one child whose weight text is any sequence  *)
(* of at most MaxText characters (update_node copies the line edit into    *)
(* item.text(1) unchecked), alone or next to a sibling weighing "50%".     *)
(***************************************************************************)
\* characters of a weight text
MaxText == 4

WeightChars == {"0", "1", "2", "5", ".", "%", "-", "a"}
Texts == UNION {[1..k -> WeightChars] : k \in 0..MaxText}
Txt50 == <<"5", "0", "%">>

TextInit ==
    /\ \E text \in Texts : \E n \in 2..3 :
           tree = WeightTree([i \in 1..n |-> IF i = 1 THEN 0 ELSE 1],
                             [i \in 1..n |-> IF i = 1 THEN Txt100
                                             ELSE IF i = 2 THEN text ELSE Txt50])
    /\ input_values = NoCurve
    /\ scenario_scores = NoCurve /\ style_opts = NoCurve
    /\ op = "none" /\ ret = NoCurve
    /\ x_sat_0 = 0 /\ x_sat_1 = 0 /\ C = 0 /\ K = 0 /\ P = 0 /\ curve = NoCurve
    /\ weight_cache = NoCache

\* one call  get_local_weight_fast(item)
GetLocalWeightFast(item) ==
    /\ op = "none"
    /\ op' = "local_weight"
    /\ ret' = [item |-> item, value |-> get_local_weight_fast(tree.text1[item])]
    /\ UNCHANGED <<args, vf_vars, cache_vars>>

TextNext ==
    \/ \E item \in Nodes(tree) : GetLocalWeightFast(item)
    \/ ValidateWeights

TextSpec == TextInit /\ [][TextNext]_vars

(***************************************************************************)
(* FlowLayoutEngine: MivesLogic.generate_sankey_data.  A node is the       *)
(* record [id, label, x, y, height] and a link the record [source_id,      *)
(* target_id, value, y_source_offset, y_target_offset]; the colours are    *)
(* left out.  Positions in the lists count from 1 (the code's idx + 1),    *)
(* and parent_idx = 0 stands for None.                                     *)
(***************************************************************************)
\* "try: return float(item.text(1).replace('%', '')) / 100.0
\*  except: return 0.0"
get_local_weight(text) ==
    LET f == ParseFloat(StripPercent(text))
    IN  IF f.exc # "none" THEN Zero ELSE RDiv(f.val, Hundred)

\* the integer that the format ".0f" prints: nearest, ties to even
Round0(r) ==
    LET fl == r[1] \div r[2]
        twice == 2 * (r[1] - fl * r[2])
    IN  IF twice < r[2] THEN fl
        ELSE IF twice > r[2] THEN fl + 1
        ELSE IF fl % 2 = 0 THEN fl ELSE fl + 1

\* f"{name} ({weight_pct:.0f}%)", or the name alone
build_label(s, name, weight_pct) ==
    IF Get(s, "show_node_weight", TRUE) /\ weight_pct # << >>
    THEN <<name, Round0(weight_pct[1])>>
    ELSE <<name>>

\* the weight taken as it is
ClampWeightOff(w) == w

\* "if absolute_weight < 0.001: absolute_weight = 0.001"
MinWeight == <<1, 1000>>
ClampWeight(w) == IF RLess(w, MinWeight) THEN MinWeight ELSE w

NodeData(id, label, x, y, height) ==
    [id |-> id, label |-> label, x |-> x, y |-> y, height |-> height]

LinkData(source_id, target_id, value) ==
    [source_id |-> source_id, target_id |-> target_id, value |-> value,
     y_source_offset |-> Zero, y_target_offset |-> Zero]

\* F(v), with v evaluated once: a name bound by an assignment of the code
With(v, F(_)) == CHOOSE r \in {F(x) : x \in {v}} : TRUE

\* nodes_by_depth[depth].append(idx), the list created when missing
AppendAt(nodes_by_depth, depth, idx) ==
    Put(nodes_by_depth, depth, Append(Get(nodes_by_depth, depth, << >>), idx))

RECURSIVE traverse(_, _, _, _, _, _, _)
RECURSIVE TraverseChildren(_, _, _, _, _, _, _)

\* the loop "for i in range(item.childCount())" over the remaining children
TraverseChildren(t, s, kids, parent_idx, parent_weight, depth, st) ==
    IF kids = << >> THEN st
    ELSE With(traverse(t, s, Head(kids), parent_idx, parent_weight, depth, st),
              LAMBDA st1 : TraverseChildren(t, s, Tail(kids), parent_idx,
                                            parent_weight, depth, st1))

\* traverse(item, parent_idx, parent_weight, depth): the lists and dicts of
\* the enclosing call after it
traverse(t, s, item, parent_idx, parent_weight, depth, st) ==
    LET local_weight == get_local_weight(t.text1[item])
        absolute_weight == ClampWeight(RMul(parent_weight, local_weight))
        max_depth == IF depth > st.max_depth THEN depth ELSE st.max_depth
        weight_pct == IF depth > 0 THEN <<RMul(local_weight, Hundred)>> ELSE << >>
        label == build_label(s, t.text0[item], weight_pct)
        idx == Len(st.nodes) + 1
        st1 == IF label \notin DOMAIN st.uid_to_idx
               THEN [st EXCEPT
                       !.max_depth = max_depth,
                       !.uid_to_idx = Put(@, label, idx),
                       !.nodes = Append(@, NodeData(item, label, Zero, Zero,
                                                    absolute_weight)),
                       !.nodes_by_depth = AppendAt(@, depth, idx)]
               ELSE [st EXCEPT !.max_depth = max_depth]
        current_idx == st1.uid_to_idx[label]
        st2 == IF parent_idx # 0
               THEN [st1 EXCEPT !.links = Append(@,
                        LinkData(st1.nodes[parent_idx].id, item, absolute_weight))]
               ELSE st1
    IN  With(<<current_idx, absolute_weight, st2>>,
             LAMBDA v : TraverseChildren(t, s, Children(t, item), v[1], v[2],
                                         depth + 1, v[3]))

\* the depth divided by the number of levels
XPosOverLevels(depth, num_depths) ==
    IF num_depths > 1 THEN Norm(depth, num_depths) ELSE <<1, 2>>

\* STEP 1: "x_pos = depth / (num_depths - 1) if num_depths > 1 else 0.5"
XPos(depth, num_depths) ==
    IF num_depths > 1 THEN Norm(depth, num_depths - 1) ELSE <<1, 2>>

\* the depth under which nodes_by_depth lists idx
DepthOfIdx(nodes_by_depth, idx) ==
    CHOOSE d \in DOMAIN nodes_by_depth :
        \E q \in 1..Len(nodes_by_depth[d]) : nodes_by_depth[d][q] = idx

SetX(nodes, nodes_by_depth, num_depths) ==
    [i \in 1..Len(nodes) |->
        [nodes[i] EXCEPT !.x = XPos(DepthOfIdx(nodes_by_depth, i), num_depths)]]

\* "sum(nodes[idx].height for idx in node_indices)"
RECURSIVE TotalHeight(_, _)
TotalHeight(nodes, node_indices) ==
    IF node_indices = << >> THEN Zero
    ELSE RAdd(nodes[Head(node_indices)].height,
              TotalHeight(nodes, Tail(node_indices)))

\* "gap_normalized * (num_nodes - 1) if num_nodes > 1 else 0"
TotalGap(gap_normalized, num_nodes) ==
    IF num_nodes > 1 THEN RMul(gap_normalized, RInt(num_nodes - 1)) ELSE Zero

NeededHeight(nodes, node_indices, gap_normalized) ==
    RAdd(TotalHeight(nodes, node_indices),
         TotalGap(gap_normalized, Len(node_indices)))

\* the ratio taken over the levels below the Root only
MaxOverflowRatioBelowRoot(nodes, nodes_by_depth, gap_normalized, available_height) ==
    LET ratios == {RDiv(NeededHeight(nodes, nodes_by_depth[d], gap_normalized),
                        available_height) : d \in DOMAIN nodes_by_depth \ {0}}
        over == {r \in ratios : RLess(One, r)} \cup {One}
    IN  CHOOSE r \in over : \A q \in over : RLeq(q, r)

\* STEP 2: the greatest needed_height / available_height over the levels
\* that need more than is available, 1.0 when there is none
MaxOverflowRatio(nodes, nodes_by_depth, gap_normalized, available_height) ==
    LET ratios == {RDiv(NeededHeight(nodes, nodes_by_depth[d], gap_normalized),
                        available_height) : d \in DOMAIN nodes_by_depth}
        over == {r \in ratios : RLess(One, r)} \cup {One}
    IN  CHOOSE r \in over : \A q \in over : RLeq(q, r)

\* "1.0 / max_overflow_ratio if max_overflow_ratio > 1.0 else 1.0"
GlobalScale(max_overflow_ratio) ==
    IF RLess(One, max_overflow_ratio) THEN RDiv(One, max_overflow_ratio) ELSE One

\* STEP 3: "node.height = node.height * global_scale"
ScaleHeights(nodes, global_scale) ==
    [i \in 1..Len(nodes) |->
        [nodes[i] EXCEPT !.height = RMul(@, global_scale)]]

\* the y of a node set at the middle of its height
NodeYCentre(current_y, height) == RAdd(current_y, RDiv(height, RInt(2)))

\* "nodes[idx].y = current_y"
NodeY(current_y, height) == current_y

\* STEP 4, one level: the nodes placed one after the other from current_y
RECURSIVE PlaceLevel(_, _, _, _)
PlaceLevel(nodes, node_indices, current_y, gap_normalized) ==
    IF node_indices = << >> THEN nodes
    ELSE LET idx == Head(node_indices)
         IN  With(<<[nodes EXCEPT ![idx].y = NodeY(current_y, nodes[idx].height)],
                    RAdd(current_y, RAdd(nodes[idx].height, gap_normalized))>>,
                  LAMBDA v : PlaceLevel(v[1], Tail(node_indices), v[2],
                                        gap_normalized))

RECURSIVE PlaceLevels(_, _, _, _, _)
PlaceLevels(nodes, nodes_by_depth, depths, vertical_margin, gap_normalized) ==
    IF depths = {} THEN nodes
    ELSE LET d == CHOOSE d \in depths : \A e \in depths : d <= e
         IN  With(PlaceLevel(nodes, nodes_by_depth[d], vertical_margin,
                             gap_normalized),
                  LAMBDA placed : PlaceLevels(placed, nodes_by_depth, depths \ {d},
                                              vertical_margin, gap_normalized))

\* STEP 5: "link.value = link.value * global_scale"
ScaleLinks(links, global_scale) ==
    [q \in 1..Len(links) |-> [links[q] EXCEPT !.value = RMul(@, global_scale)]]

\* the values of the links before position q that leave source_id
RECURSIVE SourceOffset(_, _, _)
SourceOffset(links, q, source_id) ==
    IF q = 1 THEN Zero
    ELSE IF links[q - 1].source_id = source_id
         THEN RAdd(SourceOffset(links, q - 1, source_id), links[q - 1].value)
         ELSE SourceOffset(links, q - 1, source_id)

\* one running offset kept for the links of every source
LinkOffsetsOneCursor(links) ==
    [q \in 1..Len(links) |->
        [links[q] EXCEPT !.y_source_offset =
            TotalHeight([p \in 1..(q - 1) |-> [height |-> links[p].value]],
                        [p \in 1..(q - 1) |-> p])]]

\* STEP 6: "link.y_source_offset = source_offsets[link.source_id]"
LinkOffsets(links) ==
    [q \in 1..Len(links) |->
        [links[q] EXCEPT !.y_source_offset =
            SourceOffset(links, q, links[q].source_id)]]

\* s.get('vertical_fill', 0.95) and s.get('pad', 15) / 1000.0
VerticalFill(s) == Get(s, "vertical_fill", <<19, 20>>)
GapNormalized(s) == Norm(Get(s, "pad", 15), 1000)
VerticalMargin(s) == RDiv(RSub(One, VerticalFill(s)), RInt(2))
AvailableHeight(s) == RSub(One, RMul(RInt(2), VerticalMargin(s)))

\* a placeholder node returned for a missing root item
NoLayoutPlaceholder ==
    [nodes |-> <<NodeData(0, << >>, <<1, 2>>, Zero, One)>>, links |-> << >>]

\* "return SankeyData(nodes=[], links=[])"
NoLayout == [nodes |-> << >>, links |-> << >>]

generate_sankey_data(t, style_opts_) ==
    IF t.n = 0 THEN NoLayout
    ELSE
    LET s == style_opts_
        label == build_label(s, t.text0[1], << >>)
        st0 == [nodes |-> <<NodeData(1, label, Zero, Zero, One)>>,
                links |-> << >>,
                nodes_by_depth |-> (0 :> <<1>>),
                uid_to_idx |-> (label :> 1),
                max_depth |-> 0]
        Positioned(st) ==
            LET num_depths == st.max_depth + 1
                nodes1 == SetX(st.nodes, st.nodes_by_depth, num_depths)
                Scaled(global_scale) ==
                    [nodes |-> With(ScaleHeights(nodes1, global_scale),
                                 LAMBDA nodes3 : PlaceLevels(nodes3,
                                     st.nodes_by_depth, DOMAIN st.nodes_by_depth,
                                     VerticalMargin(s), GapNormalized(s))),
                     links |-> With(ScaleLinks(st.links, global_scale), LinkOffsets)]
            IN  With(GlobalScale(MaxOverflowRatio(nodes1, st.nodes_by_depth,
                                     GapNormalized(s), AvailableHeight(s))),
                     Scaled)
    IN  With(TraverseChildren(t, s, Children(t, 1), 1, One, 1, st0), Positioned)

(***************************************************************************)
(* MivesLogic.generate_scenario_sankey_data: the shadow layer (full        *)
(* potential) and the filled layer (achievement) over the same slots.      *)
(***************************************************************************)
\* f"{name} ({satisfaction_score:.2f})": the score in hundredths
build_scenario_label(s, name, satisfaction_score) ==
    IF Get(s, "show_node_weight", TRUE)
    THEN <<name, Round0(RMul(satisfaction_score, Hundred))>>
    ELSE <<name>>

\* the value of a filled link taken without the satisfaction
FilledLinkValueUnscored(absolute_weight, child_satisfaction) == absolute_weight

\* "value=absolute_weight * child_satisfaction"
FilledLinkValue(absolute_weight, child_satisfaction) ==
    RMul(absolute_weight, child_satisfaction)

RECURSIVE traverse_scenario(_, _, _, _, _, _, _, _)
RECURSIVE TraverseScenarioChildren(_, _, _, _, _, _, _, _)

TraverseScenarioChildren(t, scores, s, kids, parent_idx, parent_weight, depth, st) ==
    IF kids = << >> THEN st
    ELSE With(traverse_scenario(t, scores, s, Head(kids), parent_idx,
                                parent_weight, depth, st),
              LAMBDA st1 : TraverseScenarioChildren(t, scores, s, Tail(kids),
                               parent_idx, parent_weight, depth, st1))

\* traverse(item, parent_idx, parent_weight, depth) of the scenario layout
traverse_scenario(t, scores, s, item, parent_idx, parent_weight, depth, st) ==
    LET local_weight == get_local_weight(t.text1[item])
        absolute_weight == ClampWeight(RMul(parent_weight, local_weight))
        max_depth == IF depth > st.max_depth THEN depth ELSE st.max_depth
        satisfaction == Get(scores, item, Zero)
        label == build_scenario_label(s, t.text0[item], satisfaction)
        idx == Len(st.shadow_nodes) + 1
        st1 == IF label \notin DOMAIN st.uid_to_idx
               THEN [st EXCEPT
                       !.max_depth = max_depth,
                       !.uid_to_idx = Put(@, label, idx),
                       !.node_satisfaction = Put(@, idx, satisfaction),
                       !.shadow_nodes = Append(@, NodeData(item, << >>, Zero, Zero,
                                                           absolute_weight)),
                       !.filled_nodes = Append(@, NodeData(item, label, Zero, Zero,
                                                 RMul(absolute_weight, satisfaction))),
                       !.nodes_by_depth = AppendAt(@, depth, idx)]
               ELSE [st EXCEPT !.max_depth = max_depth]
        current_idx == st1.uid_to_idx[label]
        child_satisfaction == Get(st1.node_satisfaction, current_idx, Zero)
        st2 == IF parent_idx # 0
               THEN [st1 EXCEPT
                       !.shadow_links = Append(@,
                           LinkData(st1.shadow_nodes[parent_idx].id, item,
                                    absolute_weight)),
                       !.filled_links = Append(@,
                           LinkData(st1.filled_nodes[parent_idx].id, item,
                                    FilledLinkValue(absolute_weight,
                                                    child_satisfaction)))]
               ELSE st1
    IN  With(<<current_idx, absolute_weight, st2>>,
             LAMBDA v : TraverseScenarioChildren(t, scores, s, Children(t, item),
                                                 v[1], v[2], depth + 1, v[3]))

\* the filled node set on the centre line of its shadow node
FilledOffsetTop(shadow_node, filled_node) == shadow_node.y

\* "y_offset = (shadow_height - filled_height) / 2.0;
\*  filled_nodes[idx].y = current_y + y_offset"
FilledOffset(shadow_node, filled_node) ==
    RAdd(shadow_node.y,
         RDiv(RSub(shadow_node.height, filled_node.height), RInt(2)))

CentreFilled(shadow_nodes, filled_nodes) ==
    [i \in 1..Len(filled_nodes) |->
        [filled_nodes[i] EXCEPT !.y = FilledOffset(shadow_nodes[i], filled_nodes[i])]]

generate_scenario_sankey_data(t, scenario_scores_, style_opts_) ==
    IF t.n = 0 THEN [shadow |-> NoLayout, filled |-> NoLayout]
    ELSE
    LET s == style_opts_
        scores == scenario_scores_
        satisfaction == Get(scores, 1, Zero)
        label == build_scenario_label(s, t.text0[1], satisfaction)
        st0 == [shadow_nodes |-> <<NodeData(1, << >>, Zero, Zero, One)>>,
                filled_nodes |-> <<NodeData(1, label, Zero, Zero, satisfaction)>>,
                shadow_links |-> << >>,
                filled_links |-> << >>,
                nodes_by_depth |-> (0 :> <<1>>),
                uid_to_idx |-> (label :> 1),
                node_satisfaction |-> (1 :> satisfaction),
                max_depth |-> 0]
        Positioned(st) ==
            LET num_depths == st.max_depth + 1
                shadow1 == SetX(st.shadow_nodes, st.nodes_by_depth, num_depths)
                filled1 == SetX(st.filled_nodes, st.nodes_by_depth, num_depths)
                Layers(global_scale, shadow3) ==
                    [shadow |-> [nodes |-> shadow3,
                                 links |-> With(ScaleLinks(st.shadow_links, global_scale),
                                                LinkOffsets)],
                     filled |-> [nodes |-> With(ScaleHeights(filled1, global_scale),
                                     LAMBDA filled2 : CentreFilled(shadow3, filled2)),
                                 links |-> With(ScaleLinks(st.filled_links, global_scale),
                                                LinkOffsets)]]
                Scaled(global_scale) ==
                    With(With(ScaleHeights(shadow1, global_scale),
                              LAMBDA shadow2 : PlaceLevels(shadow2,
                                  st.nodes_by_depth, DOMAIN st.nodes_by_depth,
                                  VerticalMargin(s), GapNormalized(s))),
                         LAMBDA shadow3 : Layers(global_scale, shadow3))
            IN  With(GlobalScale(MaxOverflowRatio(shadow1, st.nodes_by_depth,
                                     GapNormalized(s), AvailableHeight(s))),
                     Scaled)
    IN  With(TraverseScenarioChildren(t, scores, s, Children(t, 1), 1, One, 1, st0),
             Positioned)

(***************************************************************************)
(* The engine as its callers use it: a tree made in the editor (or none),  *)
(* the style options of the diagram and a scenario's scores, and any       *)
(* sequence of calls of the operations.  The item added last may also      *)
(* weigh "0%".                                                             *)
(***************************************************************************)
Txt500 == <<"5", "0", "0", "%">>
LayoutTexts == {Txt60, Txt40, TxtAbc, Txt500}
LastTexts == LayoutTexts \cup {Txt0}

\* a tree read by DataManager.import_structure_csv and renumbered: the Type
\* and Name cells of a row are free text, here "Group" and "New" for every
\* item below the Root
ImportedTexts == {Txt60, Txt40}

ImportedTree(pv, wt) ==
    LET n == Len(pv)
    IN  renumber_nodes(
        [n |-> n,
         parent |-> pv,
         text0 |-> [i \in 1..n |-> << >>],
         text1 |-> wt,
         text2 |-> [i \in 1..n |-> IF i = 1 THEN "Root" ELSE "Group"],
         data1 |-> [i \in 1..n |-> [custom_name |-> "New"]]])

\* a tree of the scenario tab, which hands generate_scenario_sankey_data the
\* scores calculate_tree_scores_from_tree_item has just returned
ScenarioProfiles ==
    { Profile(Txt60, TRUE, FInc, <<1>>),
      Profile(Txt40, TRUE, FInc, <<2>>),
      Profile(Txt60, FALSE, NoFData, << >>),
      Profile(Txt40, FALSE, NoFData, << >>) }

EngineScores(t, iv) == calculate_tree_scores_from_tree_item(t, iv).scores

\* style_opts: none given, or the ends of the ranges of the two spin boxes
\* (pad 0..100, vertical_fill 0.1..1.0)
StyleTight == [pad |-> 0, vertical_fill |-> One]
StyleWide == [pad |-> 100, vertical_fill |-> One]
StyleNarrow == [pad |-> 100, vertical_fill |-> <<1, 10>>]

\* scenario_scores: one half everywhere, 1 at the root and 1/uid below it,
\* a root score above 1 and a score below 0 (as weights below 0 produce)
ScoresHalf(n) == [i \in 1..n |-> <<1, 2>>]
ScoresByUid(n) == [i \in 1..n |-> <<1, i>>]
ScoresAboveOne(n) == [i \in 1..n |-> IF i = 1 THEN RInt(4) ELSE Zero]
ScoresBelowZero(n) == [i \in 1..n |-> IF i = 3 THEN <<-1, 2>> ELSE <<1, 2>>]

\* the style options and the scenario scores of a diagram
Diagrams(n) ==
    { <<NoFData, NoScores>>,
      <<NoFData, ScoresHalf(n)>>,
      <<NoFData, ScoresAboveOne(n)>>,
      <<NoFData, ScoresBelowZero(n)>>,
      <<StyleTight, ScoresByUid(n)>>,
      <<StyleWide, ScoresHalf(n)>>,
      <<StyleNarrow, ScoresByUid(n)>> }

LayoutInit ==
    /\ \/ /\ tree = NoTree
          /\ \E d \in Diagrams(1) : style_opts = d[1] /\ scenario_scores = d[2]
          /\ input_values = NoCurve
       \/ \E n \in 1..MaxNodes : \E pv \in ParentVectors(n) :
          \E wt \in [1..n -> LastTexts \cup {Txt100}] :
              /\ wt[1] = Txt100
              /\ \A i \in 2..n : wt[i] \in (IF i = n THEN LastTexts ELSE LayoutTexts)
              /\ tree = WeightTree(pv, wt)
              /\ \E d \in Diagrams(n) : style_opts = d[1] /\ scenario_scores = d[2]
              /\ input_values = NoCurve
       \/ \E n \in 2..MaxNodes : \E pv \in ParentVectors(n) :
          \E wt \in [1..n -> ImportedTexts \cup {Txt100}] :
              /\ wt[1] = Txt100
              /\ \A i \in 2..n : wt[i] \in ImportedTexts
              /\ tree = ImportedTree(pv, wt)
              /\ \E d \in Diagrams(n) : style_opts = d[1] /\ scenario_scores = d[2]
              /\ input_values = NoCurve
       \/ \E n \in 2..MaxNodes : \E pv \in ParentVectors(n) :
          \E pr \in [1..n -> ScenarioProfiles] :
              /\ pr[1] = Profile(Txt60, FALSE, NoFData, << >>)
              /\ tree = ScoreTree(pv, pr)
              /\ input_values = ScoreInputs(n, pr)
              /\ scenario_scores = EngineScores(tree, input_values)
              /\ style_opts = NoFData
    /\ op = "none" /\ ret = NoCurve
    /\ x_sat_0 = 0 /\ x_sat_1 = 0 /\ C = 0 /\ K = 0 /\ P = 0 /\ curve = NoCurve
    /\ weight_cache = NoCache

\* one call  generate_sankey_data(root_item, style_opts)
GenerateSankeyData ==
    /\ op = "none"
    /\ op' = "sankey"
    /\ ret' = generate_sankey_data(tree, style_opts)
    /\ UNCHANGED <<args, vf_vars, cache_vars>>

\* the call with the defaults written into the caller's map
\* (scores.setdefault(uid, 0.0) for scores.get(uid, 0.0))
GenerateScenarioSankeyDataSetDefault ==
    /\ op = "none"
    /\ op' = "scenario_sankey"
    /\ ret' = generate_scenario_sankey_data(tree, scenario_scores, style_opts)
    /\ scenario_scores' = [i \in Nodes(tree) |-> Get(scenario_scores, i, Zero)]
    /\ UNCHANGED <<tree, input_values, style_opts, vf_vars, cache_vars>>

\* one call  generate_scenario_sankey_data(root_item, scenario_scores,
\* style_opts)
GenerateScenarioSankeyData ==
    /\ op = "none"
    /\ op' = "scenario_sankey"
    /\ ret' = generate_scenario_sankey_data(tree, scenario_scores, style_opts)
    /\ UNCHANGED <<args, vf_vars, cache_vars>>

\* the caller takes the result and comes to its next call
Return ==
    /\ op # "none"
    /\ op' = "none"
    /\ ret' = NoCurve
    /\ UNCHANGED <<args, vf_vars, cache_vars>>

LayoutNext ==
    \/ CalculateTreeScores
    \/ \E item \in Nodes(tree) : CalculateAbsoluteWeight(item)
    \/ ValidateWeights
    \/ GenerateSankeyData
    \/ GenerateScenarioSankeyData
    \/ Return

LayoutSpec == LayoutInit /\ [][LayoutNext]_vars

(***************************************************************************)
(* DataManager.export_functions_csv and import_functions_csv.  A row of    *)
(* the file is the record of its cells, each cell the text csv.writer      *)
(* writes: str() of the number.  The text of C is that of the number       *)
(* itself (C / CScale here); the text of K, the shortest decimal that      *)
(* reads back as the same double, is held as the count of ln 2.            *)
(***************************************************************************)
RECURSIVE NatDigits(_)
NatDigits(n) ==
    IF n < 10 THEN <<DigitChars[n + 1]>>
    ELSE NatDigits(n \div 10) \o <<DigitChars[(n % 10) + 1]>>

\* the e digits of n, leading zeros kept
RECURSIVE FixedDigits(_, _)
FixedDigits(n, e) ==
    IF e = 0 THEN << >>
    ELSE FixedDigits(n \div 10, e - 1) \o <<DigitChars[(n % 10) + 1]>>

\* str(n) of an int
FormatInt(n) == IF n < 0 THEN <<"-">> \o NatDigits(-n) ELSE NatDigits(n)

\* str(x) of a float: at least one digit behind the point
FormatFloat(r) ==
    LET e == CHOOSE e \in 1..9 :
                 /\ Pow10(e) % r[2] = 0
                 /\ \A f \in 1..(e - 1) : Pow10(f) % r[2] # 0
        scaled == Abs(r[1]) * (Pow10(e) \div r[2])
    IN  (IF r[1] < 0 THEN <<"-">> ELSE << >>)
        \o NatDigits(scaled \div Pow10(e)) \o <<".">> \o FixedDigits(scaled % Pow10(e), e)

\* the cell of d.get(key, default): a float set by the editor, or the int
\* default of the exporter
Cell(d, key, default, scale) ==
    IF key \in DOMAIN d THEN FormatFloat(Norm(d[key], scale))
    ELSE FormatInt(default)

\* text(0).split(':')[0].strip()
SimplifiedID(t, item) == t.text0[item]

\* the row written for an Indicator item
FunctionRow(t, item) ==
    LET d == t.data1[item]
    IN  [SimplifiedID |-> SimplifiedID(t, item),
         X_Sat_0 |-> Cell(d, "xmin", 0, 1),
         X_Sat_1 |-> Cell(d, "xmax", 100, 1),
         Units |-> Get(d, "units", << >>),
         P |-> Cell(d, "p", 1, 1),
         K |-> Cell(d, "k", 0, 1),
         C |-> Cell(d, "c", 50, CScale)]

RECURSIVE WriteRows(_, _)
WriteRows(t, order) ==
    IF order = << >> THEN << >>
    ELSE IF t.text2[Head(order)] = "Indicator"
         THEN <<FunctionRow(t, Head(order))>> \o WriteRows(t, Tail(order))
         ELSE WriteRows(t, Tail(order))

\* the rows of the file below its header, in the order write() visits
export_functions_csv(t) == IF t.n = 0 THEN << >> ELSE WriteRows(t, Preorder(t, 1))

\* a float kept as the model keeps numbers: the integer when it is one
Whole(r) == IF r[2] = 1 THEN r[1] ELSE r

\* float(row[column]), in units of 1/scale
CellValue(text, scale) == Whole(RMul(ParseFloat(text).val, RInt(scale)))

\* "func_data = {row['SimplifiedID']: row for row in reader}": the last row
\* of each id
FuncData(rows) ==
    LET ids == {rows[q].SimplifiedID : q \in 1..Len(rows)}
    IN  [sid \in ids |->
            rows[CHOOSE q \in 1..Len(rows) :
                    /\ rows[q].SimplifiedID = sid
                    /\ \A r \in (q + 1)..Len(rows) : rows[r].SimplifiedID # sid]]

\* "d.update({'xmin': float(row['X_Sat_0']), ..., 'c': float(row['C'])})"
Update(d, row) ==
    [key \in DOMAIN d \cup {"xmin", "xmax", "units", "p", "k", "c"} |->
        IF key = "xmin" THEN CellValue(row.X_Sat_0, 1)
        ELSE IF key = "xmax" THEN CellValue(row.X_Sat_1, 1)
        ELSE IF key = "units" THEN row.Units
        ELSE IF key = "p" THEN CellValue(row.P, 1)
        ELSE IF key = "k" THEN CellValue(row.K, 1)
        ELSE IF key = "c" THEN CellValue(row.C, CScale)
        ELSE d[key]]

\* update(item) on every item: the tree after the import
import_functions_csv(t, rows) ==
    LET func_data == FuncData(rows)
    IN  IF t.n = 0 THEN t
        ELSE [t EXCEPT !.data1 = [item \in 1..t.n |->
                 IF SimplifiedID(t, item) \in DOMAIN func_data
                 THEN Update(t.data1[item], func_data[SimplifiedID(t, item)])
                 ELSE t.data1[item]]]

\* one call  DataManager.export_functions_csv(tree_widget, filepath)
ExportFunctionsCsv ==
    /\ op = "none"
    /\ op' = "exported"
    /\ ret' = [file |-> export_functions_csv(tree)]
    /\ UNCHANGED <<args, vf_vars, cache_vars>>

\* one call  DataManager.import_functions_csv(tree_widget, filepath) on the
\* file just written; ret keeps the tree as it was before the call
ImportFunctionsCsv ==
    /\ op = "exported"
    /\ op' = "imported"
    /\ tree' = import_functions_csv(tree, ret.file)
    /\ ret' = [file |-> ret.file, before |-> tree]
    /\ UNCHANGED <<input_values, scenario_scores, style_opts, vf_vars, cache_vars>>

CsvNext == ExportFunctionsCsv \/ ImportFunctionsCsv

CsvSpec == ScoreInit /\ [][CsvNext]_vars

(***************************************************************************)
(* The tree editor: BuilderTab.create_default_tree, add_node, delete_node,  *)
(* move_up, move_down and update_node.  The tree of the widget is kept     *)
(* with its items numbered in pre-order; the selected item                 *)
(* (tree_widget.currentItem()) is an input of each operation, 0 for None.  *)
(* op is the operation called last.                                        *)
(***************************************************************************)
\* items of a tree in the editor
MaxItems == 5

\* the tree t with its items listed anew: item q is the former order[q]
Relabel(t, order) ==
    LET n == Len(order)
        pos(k) == IF k = 0 THEN 0 ELSE CHOOSE q \in 1..n : order[q] = k
    IN  [n |-> n,
         parent |-> [q \in 1..n |-> pos(t.parent[order[q]])],
         text0 |-> [q \in 1..n |-> t.text0[order[q]]],
         text1 |-> [q \in 1..n |-> t.text1[order[q]]],
         text2 |-> [q \in 1..n |-> t.text2[order[q]]],
         data1 |-> [q \in 1..n |-> t.data1[order[q]]]]

\* mk(n, w, t) for Index, Req 1, Crit 1 and Ind 1, each the child of the
\* one before, and renumber_nodes()
create_default_tree ==
    renumber_nodes(
        [n |-> 4,
         parent |-> <<0, 1, 2, 3>>,
         text0 |-> <<<< >>, << >>, << >>, << >>>>,
         text1 |-> <<Txt100, <<"5", "0">>, Txt100, Txt100>>,
         text2 |-> <<"Root", "Requirement", "Criterion", "Indicator">>,
         data1 |-> <<[custom_name |-> "Index"], [custom_name |-> "Req 1"],
                     [custom_name |-> "Crit 1"], [custom_name |-> "Ind 1"]>>])

\* the type chain continued below an Indicator
NewTypeBelowIndicator(pt) ==
    IF pt = "Root" THEN "Requirement"
    ELSE IF pt = "Requirement" THEN "Criterion"
    ELSE "Indicator"

\* the type of a new child of an item of type pt, "" where add_node returns
NewType(pt) ==
    IF pt = "Root" THEN "Requirement"
    ELSE IF pt = "Requirement" THEN "Criterion"
    ELSE IF pt = "Criterion" THEN "Indicator"
    ELSE ""

add_node(t, p) ==
    IF p = 0 \/ NewType(t.text2[p]) = "" THEN t
    ELSE LET c == t.n + 1
             added == [n |-> c,
                       parent |-> Append(t.parent, p),
                       text0 |-> Append(t.text0, << >>),
                       text1 |-> Append(t.text1, <<"0">>),
                       text2 |-> Append(t.text2, NewType(t.text2[p])),
                       data1 |-> Append(t.data1, [custom_name |-> "New"])]
         IN  renumber_nodes(Relabel(added, Preorder(added, 1)))

\* the entries of order that are not in the sequence gone
RECURSIVE Without(_, _)
Without(order, gone) ==
    IF order = << >> THEN << >>
    ELSE IF \E q \in 1..Len(gone) : gone[q] = Head(order)
         THEN Without(Tail(order), gone)
         ELSE <<Head(order)>> \o Without(Tail(order), gone)

\* the item removed whether or not it has a parent
delete_node_any(t, i) ==
    IF i = 0 THEN t
    ELSE IF i = 1 THEN [n |-> 0]
    ELSE renumber_nodes(Relabel(t, Without(Preorder(t, 1), Preorder(t, i))))

\* "if i and i.parent(): i.parent().removeChild(i)"
delete_node(t, i) ==
    IF i = 0 \/ t.parent[i] = 0 THEN t
    ELSE renumber_nodes(Relabel(t, Without(Preorder(t, 1), Preorder(t, i))))

\* the items in pre-order, the children of p taken in the order kids
RECURSIVE PreorderMoved(_, _, _, _)
RECURSIVE PreorderMovedAll(_, _, _, _)
PreorderMoved(t, i, p, kids) ==
    <<i>> \o PreorderMovedAll(t, IF i = p THEN kids ELSE Children(t, i), p, kids)
PreorderMovedAll(t, rest, p, kids) ==
    IF rest = << >> THEN << >>
    ELSE PreorderMoved(t, Head(rest), p, kids)
             \o PreorderMovedAll(t, Tail(rest), p, kids)

\* parent.indexOfChild(item), counted from 1
indexOfChild(kids, item) == CHOOSE q \in 1..Len(kids) : kids[q] = item

\* takeChild(idx) and insertChild(to, item)
Moved(kids, idx, to) ==
    [q \in 1..Len(kids) |->
        IF q = idx THEN kids[to] ELSE IF q = to THEN kids[idx] ELSE kids[q]]

\* the Root is the only child of the invisible root item: idx = 0
move_up(t, item) ==
    IF item = 0 \/ t.parent[item] = 0 THEN t
    ELSE LET kids == Children(t, t.parent[item])
             idx == indexOfChild(kids, item)
         IN  IF idx > 1
             THEN renumber_nodes(Relabel(t,
                      PreorderMoved(t, 1, t.parent[item], Moved(kids, idx, idx - 1))))
             ELSE t

move_down(t, item) ==
    IF item = 0 \/ t.parent[item] = 0 THEN t
    ELSE LET kids == Children(t, t.parent[item])
             idx == indexOfChild(kids, item)
         IN  IF idx < Len(kids)
             THEN renumber_nodes(Relabel(t,
                      PreorderMoved(t, 1, t.parent[item], Moved(kids, idx, idx + 1))))
             ELSE t

\* input_name.text() and input_weight.text() written into the item
update_node(t, i, name, weight) ==
    IF i = 0 THEN t
    ELSE renumber_nodes([t EXCEPT !.data1[i] = Put(@, "custom_name", name),
                                  !.text1[i] = weight])

\* the contents of the two line edits when Update is pressed
LineEdits == {<<"A", TxtAbc>>}

EditorInit ==
    /\ tree = create_default_tree
    /\ input_values = NoCurve
    /\ scenario_scores = NoCurve /\ style_opts = NoCurve
    /\ op = "none" /\ ret = NoCurve
    /\ x_sat_0 = 0 /\ x_sat_1 = 0 /\ C = 0 /\ K = 0 /\ P = 0 /\ curve = NoCurve
    /\ weight_cache = NoCache

Called(name) ==
    /\ op' = name
    /\ ret' = NoCurve
    /\ UNCHANGED <<input_values, scenario_scores, style_opts, vf_vars, cache_vars>>

AddNode(p) ==
    /\ add_node(tree, p).n <= MaxItems
    /\ tree' = add_node(tree, p)
    /\ Called("add_node")

DeleteNode(i) ==
    /\ tree' = delete_node(tree, i)
    /\ Called("delete_node")

MoveUp(item) ==
    /\ tree' = move_up(tree, item)
    /\ Called("move_up")

MoveDown(item) ==
    /\ tree' = move_down(tree, item)
    /\ Called("move_down")

UpdateNode(i) ==
    /\ \E e \in LineEdits : tree' = update_node(tree, i, e[1], e[2])
    /\ Called("update_node")

EditorNext ==
    \E item \in 0..tree.n :
        \/ AddNode(item)
        \/ DeleteNode(item)
        \/ MoveUp(item)
        \/ MoveDown(item)
        \/ UpdateNode(item)

EditorSpec == EditorInit /\ [][EditorNext]_vars

(***************************************************************************)
(* tree_utils.TreeItemCache: get_weight and clear, on a Root with two      *)
(* children whose weight texts the editor changes between the calls.  The  *)
(* cache is a function from the uids it holds to the cached weights.       *)
(***************************************************************************)
\* "uid = item.data(0, Qt.ItemDataRole.UserRole)": every item is given its own
\* str(uuid.uuid4()) when it is created, here the number of the item
UidOf(item) == item

\* the weight parsed from the text on every call
get_weight_uncached(cache, t, item) ==
    [value |-> get_local_weight_fast(t.text1[item]), cache |-> cache]

\* TreeItemCache.get_weight(item): the value returned and the cache it leaves
get_weight(cache, t, item) ==
    LET uid == UidOf(item)
        weight_text == t.text1[item]
        f == IF HasPercent(weight_text) THEN ParseFloat(StripPercent(weight_text))
             ELSE ParseFloat(weight_text)
    IN  IF uid \in DOMAIN cache
        THEN [value |-> cache[uid], cache |-> cache]
        ELSE IF f.exc = "none"
        THEN LET weight == RDiv(f.val, Hundred)
             IN  [value |-> weight, cache |-> cache @@ (uid :> weight)]
        ELSE [value |-> Zero, cache |-> cache @@ (uid :> Zero)]

\* "self.input_name.setText(d.get('custom_name', ''))": the name line edit
\* holds the name of the selected item
input_name(t, item) ==
    IF "custom_name" \in DOMAIN t.data1[item] THEN t.data1[item]["custom_name"]
    ELSE ""

\* what the weight line edit holds when Update is pressed
CacheTexts == {Txt60, Txt40, TxtAbc}

CacheInit ==
    /\ tree = WeightTree(<<0, 1, 1>>, <<Txt100, Txt60, Txt40>>)
    /\ input_values = NoCurve
    /\ scenario_scores = NoCurve /\ style_opts = NoCurve
    /\ op = "none" /\ ret = NoCurve
    /\ x_sat_0 = 0 /\ x_sat_1 = 0 /\ C = 0 /\ K = 0 /\ P = 0 /\ curve = NoCurve
    /\ weight_cache = NoCache

\* one call  cache.get_weight(item)
GetWeight(item) ==
    /\ op' = "get_weight"
    /\ ret' = [item |-> item, value |-> get_weight(weight_cache, tree, item).value]
    /\ weight_cache' = get_weight(weight_cache, tree, item).cache
    /\ UNCHANGED <<args, vf_vars>>

\* Update is pressed with another weight text for the selected item
EditWeight(item) ==
    /\ \E text \in CacheTexts :
           tree' = update_node(tree, item, input_name(tree, item), text)
    /\ op' = "update_node"
    /\ ret' = NoCurve
    /\ UNCHANGED <<input_values, scenario_scores, style_opts, vf_vars, cache_vars>>

\* one call  cache.clear()
Clear ==
    /\ op' = "clear"
    /\ ret' = NoCurve
    /\ weight_cache' = NoCache
    /\ UNCHANGED <<args, vf_vars>>

CacheNext ==
    \/ \E item \in Nodes(tree) : GetWeight(item)
    \/ \E item \in Nodes(tree) : EditWeight(item)
    \/ Clear

CacheSpec == CacheInit /\ [][CacheNext]_vars

(***************************************************************************)
(* Properties of the value function.                                       *)
(***************************************************************************)
InUnit(v) == RLeq(Zero, v) /\ RLeq(v, One)
StrictlyInUnit(v) == RLess(Zero, v) /\ RLess(v, One)

\* C1: the function saturates at the boundaries in both directions: with
\* x_sat_1 > x_sat_0 it returns exactly 0.0 for x <= x_sat_0 and exactly 1.0
\* for x >= x_sat_1; with x_sat_1 < x_sat_0 it returns exactly 0.0 for
\* x >= x_sat_0 and exactly 1.0 for x <= x_sat_1, whatever C, K and P are.
C1_BoundarySaturation ==
    \A x \in DOMAIN curve :
        /\ (x_sat_1 > x_sat_0 /\ x <= x_sat_0) => curve[x] = Returned(Zero)
        /\ (x_sat_1 > x_sat_0 /\ x >= x_sat_1) => curve[x] = Returned(One)
        /\ (x_sat_1 < x_sat_0 /\ x >= x_sat_0) => curve[x] = Returned(Zero)
        /\ (x_sat_1 < x_sat_0 /\ x <= x_sat_1) => curve[x] = Returned(One)

\* a decreasing function evaluated at or past both of its saturation points
C1_Witness ==
    /\ x_sat_1 < x_sat_0
    /\ \E a, b \in DOMAIN curve : a >= x_sat_0 /\ b <= x_sat_1

\* C2: for every combination of inputs (reversed order, zero range, C below
\* 0.0001, extreme K and P) the call does not raise and returns a value in
\* [0, 1]; an overflow or domain error of the exponential steps is replaced
\* by the safe default: B = 1.0 when the step for dist_max fails, value = 0.0
\* when the step for dist_x fails.
C2_NeverRaisesAndClamped ==
    \A x \in DOMAIN curve :
        LET tx == TermOf(x, x_sat_0, C, K, P)
            tmax == TermOf(x_sat_1, x_sat_0, C, K, P)
        IN  /\ curve[x].exc = "none"
            /\ InUnit(curve[x].val)
            /\ (InRange(x, x_sat_0, x_sat_1) /\ tx.exc \in Caught)
                   => curve[x].val = Zero
            /\ (InRange(x, x_sat_0, x_sat_1) /\ tmax.exc \in Caught
                   /\ tx.exc = "none" /\ tx.e >= 0)
                   => curve[x].val = OneMinusPhi(tx.e)

\* a call inside the range with C below 0.0001 whose power step overflows
C2_Witness ==
    /\ C < CMin
    /\ \E x \in DOMAIN curve :
           /\ InRange(x, x_sat_0, x_sat_1)
           /\ TermOf(x, x_sat_0, C, K, P).exc = "OverflowError"

PercentOf(text) == ParseFloat(StripPercent(text))
Numeric(text) == PercentOf(text).exc = "none"
\* local_weight / 100, a text that is not a number counting as 0
LocalWeightFraction(text) ==
    IF Numeric(text) THEN RDiv(PercentOf(text).val, Hundred) ELSE Zero

RECURSIVE SumOver(_, _)
SumOver(f, S) ==
    IF S = {} THEN Zero
    ELSE LET q == CHOOSE q \in S : TRUE
         IN  RAdd(f[q], SumOver(f, S \ {q}))

Kids(i) == {j \in Nodes(tree) : tree.parent[j] = i}
Scored == op = "scores"
\* the items that process() treated as a group (not as an Indicator)
ScoredGroups == {i \in DOMAIN ret.scores : tree.text2[i] # "Indicator"}

\* C4: the score of every non-Indicator node is sum(child_score *
\* child_weight/100) / sum(child_weight/100) over its direct children when
\* that weight sum is > 0, and 0 when the weight sum is 0 (no children, or
\* all children weighted 0); a node with two children weighted 60% and 40%
\* and scores s1, s2 scores 0.6*s1 + 0.4*s2.
C4_WeightedAverage ==
    Scored =>
      \A i \in ScoredGroups :
        LET frac == [j \in Kids(i) |-> LocalWeightFraction(tree.text1[j])]
            part == [j \in Kids(i) |-> RMul(ret.scores[j], frac[j])]
            tw == SumOver(frac, Kids(i))
            ts == SumOver(part, Kids(i))
        IN  /\ RLess(Zero, tw) => ret.scores[i] = RDiv(ts, tw)
            /\ tw = Zero => ret.scores[i] = Zero
            /\ \A a, b \in Kids(i) :
                 (Kids(i) = {a, b} /\ tree.text1[a] = Txt60 /\ tree.text1[b] = Txt40)
                   => ret.scores[i] = RAdd(RMul(<<3, 5>>, ret.scores[a]),
                                           RMul(<<2, 5>>, ret.scores[b]))

\* a scored Root with children 60% and 40% of different scores, and a scored
\* group whose children all weigh 0
C4_Witness ==
    /\ Scored
    /\ \E a, b \in Kids(1) :
         /\ Kids(1) = {a, b}
         /\ tree.text1[a] = Txt60 /\ tree.text1[b] = Txt40
         /\ ret.scores[a] # ret.scores[b]
         /\ RLess(Zero, ret.scores[1])
    /\ \E i \in ScoredGroups :
         /\ Kids(i) # {}
         /\ \A j \in Kids(i) : tree.text1[j] = Txt0

\* C5: an Indicator without an entry in input_values is evaluated at
\* x = x_sat_0 and scores exactly 0.0, in every direction (increasing,
\* decreasing, zero range) and for every C, K, P.
C5_MissingInputScoresZero ==
    Scored =>
      \A i \in DOMAIN ret.scores :
        (tree.text2[i] = "Indicator" /\ i \notin DOMAIN input_values)
          => ret.scores[i] = Zero

\* a scored Indicator of decreasing direction without an input value
C5_Witness ==
    /\ Scored
    /\ \E i \in DOMAIN ret.scores :
         /\ tree.text2[i] = "Indicator"
         /\ i \notin DOMAIN input_values
         /\ tree.data1[i] = FDec

\* C6: for every tree, well-formed or malformed, the call does not raise and
\* the returned map has exactly one entry for every node reachable from the
\* root.
C6_CompleteMap ==
    Scored => /\ ret.exc = "none"
              /\ DOMAIN ret.scores = Nodes(tree)

\* C7 as stated: every value of the returned map lies in [0, 1], for every
\* tree and every input_values map.
C7_ScoresInUnitAlways ==
    Scored => \A i \in DOMAIN ret.scores : InUnit(ret.scores[i])

NoNegativeWeight ==
    \A j \in Nodes(tree) :
        Numeric(tree.text1[j]) => RLeq(Zero, PercentOf(tree.text1[j]).val)

\* C7 (amended): every value of the returned map lies in [0, 1] for every
\* tree in which no weight text stands for a negative number, and every
\* input_values map.
C7_ScoresInUnit ==
    (Scored /\ NoNegativeWeight)
        => \A i \in DOMAIN ret.scores : InUnit(ret.scores[i])

\* a scored tree without negative weights whose root score is strictly
\* between 0 and 1
C7_Witness ==
    /\ Scored /\ NoNegativeWeight
    /\ StrictlyInUnit(ret.scores[1])

\* C8: a child whose weight text is non-numeric or empty contributes weight
\* 0: its parent's score is the weighted average of the other children
\* alone, the child's own score is still recorded, and the rest of the tree
\* is computed.
C8_MalformedWeightIsZero ==
    Scored =>
      \A i \in ScoredGroups :
        LET good == {j \in Kids(i) : Numeric(tree.text1[j])}
            frac == [j \in good |-> RDiv(PercentOf(tree.text1[j]).val, Hundred)]
            part == [j \in good |-> RMul(ret.scores[j], frac[j])]
            tw == SumOver(frac, good)
            ts == SumOver(part, good)
        IN  (good # Kids(i))
              => /\ ret.exc = "none"
                 /\ Kids(i) \subseteq DOMAIN ret.scores
                 /\ ret.scores[i] = (IF RLess(Zero, tw) THEN RDiv(ts, tw) ELSE Zero)

\* a scored group with a child of non-numeric weight and non-zero score next
\* to a child of numeric weight
C8_Witness ==
    /\ Scored
    /\ \E i \in ScoredGroups : \E a, b \in Kids(i) :
         /\ ~Numeric(tree.text1[a]) /\ ret.scores[a] # Zero
         /\ Numeric(tree.text1[b]) /\ RLess(Zero, PercentOf(tree.text1[b]).val)

(***************************************************************************)
(* Properties of the weight operations.                                    *)
(***************************************************************************)
\* the item and its ancestors, the root item left out
RECURSIVE BelowRootChain(_)
BelowRootChain(i) ==
    IF tree.parent[i] = 0 THEN {} ELSE {i} \cup BelowRootChain(tree.parent[i])

RECURSIVE ProductOver(_, _)
ProductOver(f, S) ==
    IF S = {} THEN One
    ELSE LET q == CHOOSE q \in S : TRUE
         IN  RMul(f[q], ProductOver(f, S \ {q}))

\* C9: calculate_absolute_weight_from_item(node) is the product of
\* local_weight/100 over the node and all of its ancestors excluding the
\* Root, whatever the Root's own weight text is; for an Indicator under
\* w1% (Requirement), w2% (Criterion), w3% (Indicator) it is
\* (w1/100)*(w2/100)*(w3/100).
C9_AbsoluteWeightProduct ==
    (op = "absolute_weight")
      => LET chain == BelowRootChain(ret.item)
             frac == [j \in chain |-> RDiv(PercentOf(tree.text1[j]).val, Hundred)]
         IN  (\A j \in chain : Numeric(tree.text1[j]))
                => ret.value = ProductOver(frac, chain)

\* the absolute weight of an Indicator three levels below a Root whose own
\* weight text is 60%, under numeric weights
C9_Witness ==
    /\ op = "absolute_weight"
    /\ Depth(tree, ret.item) = 3
    /\ tree.text2[ret.item] = "Indicator"
    /\ tree.text1[1] = Txt60
    /\ \A j \in BelowRootChain(ret.item) : Numeric(tree.text1[j])
    /\ RLess(Zero, ret.value) /\ RLess(ret.value, One)

\* the sum of the children's weights of item i, as a percentage
ChildrenPercent(i) ==
    SumOver([j \in Kids(i) |-> RMul(LocalWeightFraction(tree.text1[j]), Hundred)],
            Kids(i))
OffBalance(i) ==
    /\ Kids(i) # {}
    /\ RLess(<<1, 10>>, RAbs(RSub(ChildrenPercent(i), Hundred)))

\* C10: validate_weights returns exactly one violation for each node that has
\* at least one child and whose children's weights sum to a value differing
\* from 100 by more than 0.1, and none for any other node; violations at
\* several levels are all reported, a tree balanced at every level yields the
\* empty list, and a Root with children 60% and 30% is reported once.
C10_ValidatorDetection ==
    (op = "validate")
      => LET errors == ret.errors
             named == {errors[q].item : q \in 1..Len(errors)}
         IN  /\ named = {i \in Nodes(tree) : OffBalance(i)}
             /\ Len(errors) = Cardinality(named)
             /\ \A q \in 1..Len(errors) :
                    errors[q].total = ChildrenPercent(errors[q].item)
             /\ \A a, b \in Kids(1) :
                  (Kids(1) = {a, b} /\ tree.text1[a] = Txt60 /\ tree.text1[b] = Txt30)
                    => Len(SelectSeq(errors, LAMBDA e : e.item = 1)) = 1

\* a validated tree with violations at two levels, a balanced level and
\* (always) childless items
C10_Witness ==
    /\ op = "validate"
    /\ Len(ret.errors) = 2
    /\ \E i \in Nodes(tree) : Kids(i) # {} /\ ~OffBalance(i)

(***************************************************************************)
(* Properties of the weight texts.                                         *)
(***************************************************************************)
\* C11: get_local_weight_fast returns the numeric value of the item's weight
\* text divided by 100 whether or not the text contains '%' ("25%" -> 0.25,
\* "0.25" -> 0.0025), applies no clamping to [0,1] ("500%" -> 5.0,
\* "-10%" -> -0.1), and returns 0.0 without raising for empty or non-numeric
\* text.
C11_LocalWeightOfText ==
    (op = "local_weight")
      => LET text == tree.text1[ret.item]
         IN  /\ Numeric(text) => ret.value = RDiv(PercentOf(text).val, Hundred)
             /\ ~Numeric(text) => ret.value = Zero
             /\ text = <<"2", "5", "%">> => ret.value = <<1, 4>>
             /\ text = <<"0", ".", "2", "5">> => ret.value = <<1, 400>>
             /\ text = <<"5", "0", "0", "%">> => ret.value = <<5, 1>>
             /\ text = <<"-", "1", "0", "%">> => ret.value = <<-1, 10>>
             /\ text \in {<< >>, <<"a">>, <<"%">>, <<"1", "a", "%">>}
                    => ret.value = Zero

\* the local weight of a child whose text, without '%', reads 0.25
C11_Witness ==
    /\ op = "local_weight"
    /\ tree.text1[ret.item] = <<"0", ".", "2", "5">>
    /\ ret.value = <<1, 400>>

(***************************************************************************)
(* Properties of the layout.                                               *)
(***************************************************************************)
\* the positions of the nodes list that stand for items at depth d
LevelOf(nodes, d) == {i \in 1..Len(nodes) : Depth(tree, nodes[i].id) = d}
Levels == 0..MaxDepth

\* sum of the heights at depth d plus the gaps between them
LevelExtent(nodes, d) ==
    LET L == LevelOf(nodes, d)
    IN  RAdd(SumOver([i \in L |-> nodes[i].height], L),
             RMul(GapNormalized(style_opts), RInt(Cardinality(L) - 1)))

\* 1 - 2 * margin, margin = (1 - vertical_fill) / 2
Available == RSub(One, RMul(RInt(2), RDiv(RSub(One, VerticalFill(style_opts)), RInt(2))))

LevelsFit(nodes) ==
    \A d \in Levels :
        LevelOf(nodes, d) # {}
            => RLeq(RSub(LevelExtent(nodes, d), Available), Eps)

\* C12: after generate_sankey_data (and for the shadow layer of
\* generate_scenario_sankey_data), for every tree, every gap (pad/1000) and
\* every vertical_fill, at every depth level with N nodes the sum of the
\* scaled node heights + gap*(N-1) is at most 1 - 2*margin, up to a rounding
\* epsilon: no level overflows the available height after the global scale.
C12_NoLevelOverflows ==
    /\ (op = "sankey") => LevelsFit(ret.nodes)
    /\ (op = "scenario_sankey") => LevelsFit(ret.shadow.nodes)

\* C13 as stated: for every node index i, filled_nodes[i].height <=
\* shadow_nodes[i].height and the vertical centre of the filled node equals
\* that of the shadow node, for every tree and every scenario_scores map.
C13_FilledWithinShadowAlways ==
    (op = "scenario_sankey") =>
        /\ Len(ret.filled.nodes) = Len(ret.shadow.nodes)
        /\ \A i \in 1..Len(ret.shadow.nodes) :
             LET sh == ret.shadow.nodes[i]
                 fi == ret.filled.nodes[i]
             IN  /\ RLeq(fi.height, sh.height)
                 /\ RAdd(fi.y, RDiv(fi.height, RInt(2)))
                      = RAdd(sh.y, RDiv(sh.height, RInt(2)))

ScoresAtMostOne ==
    \A i \in DOMAIN scenario_scores : RLeq(scenario_scores[i], One)

\* C13 (amended): for every tree and every scenario_scores map whose values
\* are at most 1, filled_nodes[i].height <= shadow_nodes[i].height for every
\* node index i; the vertical centres of the filled and the shadow node are
\* equal for every scenario_scores map.
C13_FilledWithinShadow ==
    (op = "scenario_sankey") =>
        /\ Len(ret.filled.nodes) = Len(ret.shadow.nodes)
        /\ \A i \in 1..Len(ret.shadow.nodes) :
             LET sh == ret.shadow.nodes[i]
                 fi == ret.filled.nodes[i]
             IN  /\ ScoresAtMostOne => RLeq(fi.height, sh.height)
                 /\ RAdd(fi.y, RDiv(fi.height, RInt(2)))
                      = RAdd(sh.y, RDiv(sh.height, RInt(2)))

\* a scenario layout of a full tree in which some filled node is strictly
\* lower than its shadow node and starts below the top of it
C13_Witness ==
    /\ op = "scenario_sankey"
    /\ ScoresAtMostOne
    /\ Len(ret.shadow.nodes) = MaxNodes
    /\ \E i \in 1..Len(ret.shadow.nodes) :
         /\ RLess(Zero, ret.filled.nodes[i].height)
         /\ RLess(ret.filled.nodes[i].height, ret.shadow.nodes[i].height)
         /\ RLess(ret.shadow.nodes[i].y, ret.filled.nodes[i].y)

NodesInUnitSquare(nodes) ==
    \A i \in 1..Len(nodes) :
        /\ InUnit(nodes[i].x)
        /\ RLeq(Zero, nodes[i].y)
        /\ RLeq(RAdd(nodes[i].y, nodes[i].height), One)

LinksInUnit(links) ==
    \A q \in 1..Len(links) :
        InUnit(links[q].value) /\ InUnit(links[q].y_source_offset)

\* C14: every coordinate of the layout output is normalized to [0,1]: for
\* every node returned by generate_sankey_data and
\* generate_scenario_sankey_data, 0 <= x <= 1, 0 <= y and y + height <= 1,
\* and for every link, value and y_source_offset lie in [0,1], for every tree
\* and every allowed pad (0..100) and vertical_fill (0.1..1.0).
C14_CoordinatesNormalized ==
    /\ (op = "sankey") => NodesInUnitSquare(ret.nodes) /\ LinksInUnit(ret.links)
    /\ (op = "scenario_sankey") =>
           /\ NodesInUnitSquare(ret.shadow.nodes) /\ LinksInUnit(ret.shadow.links)
           /\ NodesInUnitSquare(ret.filled.nodes) /\ LinksInUnit(ret.filled.links)

\* C15: no engine operation (calculate_tree_scores_from_tree_item,
\* calculate_absolute_weight_from_item, validate_weights,
\* generate_sankey_data, generate_scenario_sankey_data) changes the tree it
\* is given: after any sequence of these calls every node's name, weight
\* text, type, id, function parameters, parent and child order are unchanged,
\* and the caller's input_values / scenario_scores maps are unchanged.
C15_EngineReadsOnly ==
    [][/\ tree' = tree
       /\ input_values' = input_values
       /\ scenario_scores' = scenario_scores]_vars

\* a scenario layout returned for a full tree and a scenario_scores map
\* without an entry for any item
C15_Witness ==
    /\ op = "scenario_sankey"
    /\ tree.n = MaxNodes
    /\ scenario_scores = NoScores
    /\ Len(ret.filled.nodes) = MaxNodes

\* C17: degenerate trees are not errors: with a missing root (None)
\* calculate_tree_scores_from_tree_item returns an empty map and
\* generate_sankey_data / generate_scenario_sankey_data return empty node and
\* link lists; with a tree that has only a Root the layout functions return
\* without raising, with no links and no node other than the Root.
C17_DegenerateTrees ==
    /\ (tree.n = 0 /\ op = "scores")
          => ret.exc = "none" /\ DOMAIN ret.scores = {}
    /\ (tree.n = 0 /\ op = "sankey")
          => Len(ret.nodes) = 0 /\ Len(ret.links) = 0
    /\ (tree.n = 0 /\ op = "scenario_sankey")
          => /\ Len(ret.shadow.nodes) = 0 /\ Len(ret.shadow.links) = 0
             /\ Len(ret.filled.nodes) = 0 /\ Len(ret.filled.links) = 0
    /\ (tree.n = 1 /\ op = "sankey")
          => /\ Len(ret.links) = 0
             /\ \A i \in 1..Len(ret.nodes) : ret.nodes[i].id = 1
    /\ (tree.n = 1 /\ op = "scenario_sankey")
          => /\ Len(ret.shadow.links) = 0 /\ Len(ret.filled.links) = 0
             /\ \A i \in 1..Len(ret.shadow.nodes) : ret.shadow.nodes[i].id = 1
             /\ \A i \in 1..Len(ret.filled.nodes) : ret.filled.nodes[i].id = 1

\* the scenario layout asked for without a root item
C17_Witness ==
    /\ tree.n = 0
    /\ op = "scenario_sankey"
    /\ ret.shadow.nodes = << >>

\* the greatest depth of an item of the tree
DeepestLevel ==
    CHOOSE d \in Levels :
        /\ \E i \in Nodes(tree) : Depth(tree, i) = d
        /\ \A i \in Nodes(tree) : Depth(tree, i) <= d

ColumnsByDepth(nodes) ==
    \A i \in 1..Len(nodes) :
        LET d == Depth(tree, nodes[i].id)
        IN  /\ DeepestLevel > 0 => nodes[i].x = Norm(d, DeepestLevel)
            /\ DeepestLevel = 0 => nodes[i].x = <<1, 2>>
            /\ (DeepestLevel > 0 /\ d = 0) => nodes[i].x = Zero
            /\ (DeepestLevel > 0 /\ d = DeepestLevel) => nodes[i].x = One
            /\ \A j \in 1..Len(nodes) :
                 Depth(tree, nodes[j].id) > d => RLess(nodes[i].x, nodes[j].x)

\* C20: in the layout output every node at depth d has x = d / max_depth,
\* where max_depth is the greatest depth present in the tree (Root x = 0,
\* deepest level x = 1, x strictly increasing with depth), and x = 0.5 when
\* the tree has only one depth level; in dual-layer mode the shadow and
\* filled node of the same index have the same x.
C20_ColumnOfDepth ==
    /\ (op = "sankey" /\ tree.n > 0) => ColumnsByDepth(ret.nodes)
    /\ (op = "scenario_sankey" /\ tree.n > 0) =>
           /\ ColumnsByDepth(ret.shadow.nodes)
           /\ \A i \in 1..Len(ret.shadow.nodes) :
                  ret.filled.nodes[i].x = ret.shadow.nodes[i].x

\* a scenario layout of a tree with items at the depths 0, 1 and 2
C20_Witness ==
    /\ op = "scenario_sankey"
    /\ tree.n > 0
    /\ DeepestLevel = 2
    /\ \E i \in 1..Len(ret.filled.nodes) : ret.filled.nodes[i].x = <<1, 2>>

(***************************************************************************)
(* Properties of the placement within a level.                             *)
(***************************************************************************)
\* the value of the cursor when the node at position i is placed: margin plus
\* the scaled height and the gap of every earlier node of its level
Cursor(nodes, i) ==
    LET d == Depth(tree, nodes[i].id)
        earlier == {j \in LevelOf(nodes, d) : j < i}
        gap == GapNormalized(style_opts)
    IN  RAdd(VerticalMargin(style_opts),
             SumOver([j \in earlier |-> RAdd(nodes[j].height, gap)], earlier))

\* C21 as stated: within each depth level generate_sankey_data places the
\* nodes sequentially in traversal order starting with a cursor at margin;
\* each node's reported y is its vertical centre, the cursor value plus half
\* the node's scaled height, and the cursor then advances by the scaled
\* height plus the gap.
C21_YIsCentreOfNode ==
    (op = "sankey") =>
        \A i \in 1..Len(ret.nodes) :
            ret.nodes[i].y = RAdd(Cursor(ret.nodes, i),
                                  RDiv(ret.nodes[i].height, RInt(2)))

\* C21 (amended): within each depth level generate_sankey_data places the
\* nodes sequentially in traversal order starting with a cursor at margin;
\* each node's reported y is the cursor value itself, the top edge of the
\* node, and the cursor then advances by the scaled height plus the gap.
C21_YIsCursor ==
    (op = "sankey") =>
        \A i \in 1..Len(ret.nodes) : ret.nodes[i].y = Cursor(ret.nodes, i)

\* a layout with three nodes in one level, the third one below the margin by
\* two heights and two gaps of 0.1
C21_Witness ==
    /\ op = "sankey"
    /\ style_opts = StyleWide
    /\ \E i \in 1..Len(ret.nodes) :
         /\ Cardinality({j \in LevelOf(ret.nodes, Depth(tree, ret.nodes[i].id)) : j < i}) = 2
         /\ RLess(<<1, 5>>, ret.nodes[i].y)

(***************************************************************************)
(* Properties of the links of one source.                                  *)
(***************************************************************************)
\* the links before position q that leave the source of the link at q
EarlierOfSource(links, q) ==
    {p \in 1..(q - 1) : links[p].source_id = links[q].source_id}

\* y_source_offset is the sum of the values of the source's earlier links
StackedOffsets(links) ==
    \A q \in 1..Len(links) :
        links[q].y_source_offset =
            SumOver([p \in EarlierOfSource(links, q) |-> links[p].value],
                    EarlierOfSource(links, q))

\* [y_source_offset, y_source_offset + value) of a and of b have no point in
\* common
BandsDisjoint(a, b) ==
    \/ RLeq(a.value, Zero)
    \/ RLeq(b.value, Zero)
    \/ RLeq(RAdd(a.y_source_offset, a.value), b.y_source_offset)
    \/ RLeq(RAdd(b.y_source_offset, b.value), a.y_source_offset)

NoOverlap(links) ==
    \A p, q \in 1..Len(links) :
        (p # q /\ links[p].source_id = links[q].source_id)
            => BandsDisjoint(links[p], links[q])

\* C22 as stated: for every source node in the layout output, the k-th link
\* of a source (in link order) has y_source_offset equal to the sum of the
\* scaled values of that source's earlier links, so the vertical bands
\* [y_source_offset, y_source_offset + value) of any two links with the same
\* source_id are disjoint; this holds separately for the single layer, the
\* shadow layer and the filled layer.
C22_LinksStackAlways ==
    /\ (op = "sankey") => StackedOffsets(ret.links) /\ NoOverlap(ret.links)
    /\ (op = "scenario_sankey") =>
           /\ StackedOffsets(ret.shadow.links) /\ NoOverlap(ret.shadow.links)
           /\ StackedOffsets(ret.filled.links) /\ NoOverlap(ret.filled.links)

ScoresAtLeastZero ==
    \A i \in DOMAIN scenario_scores : RLeq(Zero, scenario_scores[i])

\* C22 (amended): in the single, the shadow and the filled layer the k-th
\* link of a source has y_source_offset equal to the sum of the scaled
\* values of that source's earlier links; the bands of any two links with
\* the same source_id are disjoint in the single and the shadow layer, and
\* in the filled layer when no score of scenario_scores is below 0.
C22_LinksStack ==
    /\ (op = "sankey") => StackedOffsets(ret.links) /\ NoOverlap(ret.links)
    /\ (op = "scenario_sankey") =>
           /\ StackedOffsets(ret.shadow.links) /\ NoOverlap(ret.shadow.links)
           /\ StackedOffsets(ret.filled.links)
           /\ ScoresAtLeastZero => NoOverlap(ret.filled.links)

\* a filled layer in which the second link of a source with a positive score
\* starts where the first one, of positive value, ends, after links of
\* another source
C22_Witness ==
    /\ op = "scenario_sankey"
    /\ ScoresAtLeastZero
    /\ \E p, q \in 1..Len(ret.filled.links) :
         /\ p < q
         /\ ret.filled.links[p].source_id = ret.filled.links[q].source_id
         /\ ret.filled.links[p].source_id # 1
         /\ RLess(Zero, ret.filled.links[p].value)
         /\ RLess(Zero, ret.filled.links[q].value)
         /\ ret.filled.links[q].y_source_offset = ret.filled.links[p].value

(***************************************************************************)
(* Properties of the heights.                                              *)
(***************************************************************************)
\* the global scale of a layout: the height of the Root node, whose height
\* before the scale is 1.0
ScaleOf(nodes) == nodes[1].height

\* C23: in single-layer mode the height of every non-root node before the
\* global scale is applied equals the absolute weight of that node as
\* computed by calculate_absolute_weight_from_item (product of local weight
\* fractions below the Root), for every tree, including nodes whose weight
\* is 0% or whose absolute weight is below 0.001; after scaling,
\* height = absolute_weight * global_scale.
C23_HeightIsAbsoluteWeight ==
    (op = "sankey" /\ tree.n > 0) =>
        \A i \in 2..Len(ret.nodes) :
            ret.nodes[i].height =
                RMul(calculate_absolute_weight_from_item(tree, ret.nodes[i].id),
                     ScaleOf(ret.nodes))

(***************************************************************************)
(* Properties of the node and link lists.                                  *)
(***************************************************************************)
\* one node per item, in pre-order, carrying the item's id
OneNodePerItem(nodes) ==
    [i \in 1..Len(nodes) |-> nodes[i].id] = Preorder(tree, 1)

\* one link per item below the Root, in pre-order, from the node of its
\* parent to a node of the list
OneLinkPerChild(nodes, links) ==
    /\ [q \in 1..Len(links) |-> links[q].target_id] = Tail(Preorder(tree, 1))
    /\ \A q \in 1..Len(links) :
         /\ links[q].source_id = tree.parent[links[q].target_id]
         /\ \E i \in 1..Len(nodes) : nodes[i].id = links[q].target_id

\* C24: the layout never filters or merges nodes: generate_sankey_data and
\* generate_scenario_sankey_data return exactly one node record per tree
\* node that has an id (in pre-order, carrying that node's id) and exactly
\* one link per non-root node whose target_id is a returned node, including
\* nodes of weight 0 and including two tree nodes that have the same display
\* name and weight (or, in scenario mode, the same name and score).
C24_NoNodeFilteredOrMerged ==
    /\ (op = "sankey" /\ tree.n > 0) =>
           /\ OneNodePerItem(ret.nodes)
           /\ OneLinkPerChild(ret.nodes, ret.links)
    /\ (op = "scenario_sankey" /\ tree.n > 0) =>
           /\ OneNodePerItem(ret.shadow.nodes)
           /\ OneLinkPerChild(ret.shadow.nodes, ret.shadow.links)
           /\ OneNodePerItem(ret.filled.nodes)
           /\ OneLinkPerChild(ret.filled.nodes, ret.filled.links)

(***************************************************************************)
(* Properties of the function file.                                        *)
(***************************************************************************)
\* x_sat_0, x_sat_1, C, K and P as process() takes them for an Indicator
UsedParameters(t, item) ==
    LET f_data == t.data1[item]
    IN  [x_sat_0 |-> Get(f_data, "xmin", 0),
         x_sat_1 |-> Get(f_data, "xmax", 100),
         C |-> Get(f_data, "c", DefaultC),
         K |-> Get(f_data, "k", DefaultK),
         P |-> Get(f_data, "p", 1)]

\* C16: exporting the indicators' value-function parameters with
\* export_functions_csv and importing the file back with
\* import_functions_csv into the same tree is a round trip for scoring: for
\* every Indicator, including one whose parameters were never set, the values
\* of x_sat_0, x_sat_1, P, K and C that calculate_tree_scores_from_tree_item
\* uses after the import equal the values it used before the export.
C16_FunctionsRoundTrip ==
    (op = "imported") =>
        \A item \in Nodes(tree) :
            tree.text2[item] = "Indicator"
                => UsedParameters(tree, item) = UsedParameters(ret.before, item)

(***************************************************************************)
(* Properties of the reading of malformed weights.                         *)
(***************************************************************************)
\* C18: a non-numeric or missing weight is treated as weight 0 by every
\* engine operation that reads it: calculate_absolute_weight_from_item
\* returns 0 for a node whose own weight, or the weight of any of its
\* ancestors below the Root, is malformed, and validate_weights counts such a
\* child as 0 in its parent's sum, reporting the parent when the sum then
\* deviates from 100 by more than 0.1.
C18_MalformedWeightIsZeroEverywhere ==
    /\ (op = "absolute_weight")
          => ((\E j \in BelowRootChain(ret.item) : ~Numeric(tree.text1[j]))
                 => ret.value = Zero)
    /\ (op = "validate")
          => \A i \in Nodes(tree) :
               LET good == {j \in Kids(i) : Numeric(tree.text1[j])}
                   total == SumOver([j \in good |-> PercentOf(tree.text1[j]).val], good)
                   reported == \E q \in 1..Len(ret.errors) : ret.errors[q].item = i
               IN  (good # Kids(i))
                     => (reported <=> RLess(<<1, 10>>, RAbs(RSub(total, Hundred))))

\* the fraction the aggregator takes for every child of i, summed
Denominator(i) ==
    SumOver([j \in Kids(i) |-> ChildWeight(tree.text1[j])], Kids(i))

NearOne(v) == RLeq(RAbs(RSub(v, One)), <<1, 1000>>)

Unreported(i) == \A q \in 1..Len(ret.errors) : ret.errors[q].item # i

\* C19 as stated: for every weight text, the fraction validate_weights
\* obtains from get_local_weight_fast equals the fraction
\* calculate_tree_scores_from_tree_item parses for the same child;
\* consequently, whenever validate_weights reports no violation for a node,
\* that node's renormalizing denominator (sum of child fractions) is within
\* 0.001 of 1.
C19_SameFractionAlways ==
    /\ (op = "local_weight")
          => ret.value = ChildWeight(tree.text1[ret.item])
    /\ (op = "validate")
          => \A i \in Nodes(tree) : Unreported(i) => NearOne(Denominator(i))

\* C19 (amended): for every weight text the two fractions are equal;
\* consequently, whenever validate_weights reports no violation for a node
\* that has at least one child, that node's renormalizing denominator is
\* within 0.001 of 1.
C19_SameFraction ==
    /\ (op = "local_weight")
          => ret.value = ChildWeight(tree.text1[ret.item])
    /\ (op = "validate")
          => \A i \in Nodes(tree) :
               (Unreported(i) /\ Kids(i) # {}) => NearOne(Denominator(i))

\* a validated Root without violation whose children read "50.1" (no '%')
\* and "50%"
C19_Witness ==
    /\ op = "validate"
    /\ tree.n = 3
    /\ tree.text1[2] = <<"5", "0", ".", "1">>
    /\ Unreported(1)

(***************************************************************************)
(* Properties of the tree editor.                                          *)
(***************************************************************************)
\* the kind one level below kind k
LevelBelow(k) ==
    IF k = "Root" THEN "Requirement"
    ELSE IF k = "Requirement" THEN "Criterion"
    ELSE IF k = "Criterion" THEN "Indicator"
    ELSE "none"

\* C25: starting from the default tree, after any sequence of the editor
\* operations add_node, delete_node, move_up, move_down and update_node
\* (with any selected item), the tree has exactly one Root, which has no
\* parent and cannot be deleted, and every other node's kind is exactly one
\* level below its parent's kind in the order Root -> Requirement ->
\* Criterion -> Indicator; an Indicator never gets a child.
C25_EditorKeepsHierarchy ==
    /\ tree.n >= 1
    /\ Cardinality({i \in Nodes(tree) : tree.text2[i] = "Root"}) = 1
    /\ \A i \in Nodes(tree) :
         /\ tree.text2[i] = "Root" => tree.parent[i] = 0
         /\ tree.text2[i] # "Root" =>
                /\ tree.parent[i] \in Nodes(tree)
                /\ tree.text2[i] = LevelBelow(tree.text2[tree.parent[i]])
         /\ tree.text2[i] = "Indicator" => Children(tree, i) = << >>

\* the tree after move_up, an added and updated Requirement standing before
\* the Requirement of the default tree, which still has its Criterion and
\* Indicator
C25_Witness ==
    /\ op = "move_up"
    /\ tree.n = 5
    /\ tree.parent = <<0, 1, 1, 3, 4>>
    /\ tree.data1[2]["custom_name"] = "A"
    /\ tree.data1[3]["custom_name"] = "Req 1"
    /\ tree.text2[5] = "Indicator"

(***************************************************************************)
(* Properties of the index contributions.                                  *)
(***************************************************************************)
\* validate_weights has nothing to report because the children of every
\* item that has children sum to exactly 100%
SumsExact ==
    \A i \in Nodes(tree) :
        Kids(i) # {} =>
            SumOver([j \in Kids(i) |-> get_local_weight_fast(tree.text1[j])],
                    Kids(i)) = One

LeavesAreIndicators ==
    \A i \in Nodes(tree) : Kids(i) = {} => tree.text2[i] = "Indicator"

Indicators == {i \in Nodes(tree) : tree.text2[i] = "Indicator"}

\* "absolute_weight * satisfaction", satisfaction = scores.get(uid, 0.0)
IndexContribution(scores, i) ==
    RMul(calculate_absolute_weight_from_item(tree, i), Get(scores, i, Zero))

\* C26: when validate_weights reports no violation because the children of
\* every internal node sum to exactly 100%, and all leaves are Indicators,
\* the index contributions shown by the scenario table add up to the root
\* index: the sum over all Indicators of
\* calculate_absolute_weight_from_item(indicator) * score(indicator) equals
\* the Root's score from calculate_tree_scores_from_tree_item.
C26_ContributionsAddUp ==
    (op = "scores" /\ tree.n > 0 /\ SumsExact /\ LeavesAreIndicators
        /\ validate_weights(tree) = << >>)
      => SumOver([i \in Indicators |-> IndexContribution(ret.scores, i)],
                 Indicators) = ret.scores[1]

(***************************************************************************)
(* Properties of the flow.                                                 *)
(***************************************************************************)
\* no two items of the tree had the same label
LabelsDistinct(nodes) == Len(nodes) = tree.n

\* the height of the node of the list that carries id
HeightOf(nodes, id) ==
    nodes[CHOOSE i \in 1..Len(nodes) : nodes[i].id = id].height

\* absolute_weight of traverse before its floor: the parent's weight as it
\* was handed down, times the local weight
RECURSIVE HandedDown(_)
HandedDown(i) ==
    IF tree.parent[i] = 0 THEN One
    ELSE ClampWeight(RMul(HandedDown(tree.parent[i]),
                          get_local_weight(tree.text1[i])))

Unfloored(i) ==
    RLeq(MinWeight, RMul(HandedDown(tree.parent[i]),
                         get_local_weight(tree.text1[i])))

\* the children's weights sum to 100% and none of them is floored
Conserving(i) ==
    /\ Kids(i) # {}
    /\ SumOver([j \in Kids(i) |-> get_local_weight(tree.text1[j])], Kids(i)) = One
    /\ \A j \in Kids(i) : Unfloored(j)

LinksCarryTargets(nodes, links) ==
    \A q \in 1..Len(links) :
        links[q].value = HeightOf(nodes, links[q].target_id)

\* the values of the links that leave item i add up to the height of its node
Outflow(nodes, links, i) ==
    LET out == {q \in 1..Len(links) : links[q].source_id = i}
    IN  SumOver([q \in out |-> links[q].value], out) = HeightOf(nodes, i)

OutflowIsHeight(nodes, links) ==
    \A i \in Nodes(tree) : Conserving(i) => Outflow(nodes, links, i)

Conserved(nodes, links) ==
    LinksCarryTargets(nodes, links) /\ OutflowIsHeight(nodes, links)

\* C27 as stated: flow is conserved in the layout output when node labels are
\* distinct: every link's value equals the height of its target node in the
\* same layer, and for every node whose children's weights sum to 100% and
\* whose children all have absolute weight >= 0.001, the sum of the values
\* of its outgoing links equals the node's own height, in the single layer
\* and the shadow layer, and also in the filled layer when the scores passed
\* in are those of calculate_tree_scores_from_tree_item.
C27_FlowConservedAlways ==
    /\ (op = "sankey" /\ tree.n > 0 /\ LabelsDistinct(ret.nodes))
          => Conserved(ret.nodes, ret.links)
    /\ (op = "scenario_sankey" /\ tree.n > 0 /\ LabelsDistinct(ret.shadow.nodes))
          => /\ Conserved(ret.shadow.nodes, ret.shadow.links)
             /\ LinksCarryTargets(ret.filled.nodes, ret.filled.links)
             /\ scenario_scores = EngineScores(tree, input_values)
                    => OutflowIsHeight(ret.filled.nodes, ret.filled.links)

\* C27 (amended): as stated for the single and the shadow layer and for the
\* link values of the filled layer; in the filled layer, when the scores
\* passed in are those of calculate_tree_scores_from_tree_item, the sum of
\* the values of the outgoing links equals the node's own height for every
\* such node that is not an Indicator.
C27_FlowConserved ==
    /\ (op = "sankey" /\ tree.n > 0 /\ LabelsDistinct(ret.nodes))
          => Conserved(ret.nodes, ret.links)
    /\ (op = "scenario_sankey" /\ tree.n > 0 /\ LabelsDistinct(ret.shadow.nodes))
          => /\ Conserved(ret.shadow.nodes, ret.shadow.links)
             /\ LinksCarryTargets(ret.filled.nodes, ret.filled.links)
             /\ scenario_scores = EngineScores(tree, input_values)
                    => \A i \in Nodes(tree) :
                           (Conserving(i) /\ tree.text2[i] # "Indicator")
                               => Outflow(ret.filled.nodes, ret.filled.links, i)

\* a scenario layout made with the engine's scores in which a Requirement
\* below the Root scores between 0 and 1 and passes its filled height on to
\* its two Indicators
C27_Witness ==
    /\ op = "scenario_sankey"
    /\ tree.n = 4
    /\ scenario_scores = EngineScores(tree, input_values)
    /\ LabelsDistinct(ret.filled.nodes)
    /\ Conserving(2)
    /\ Cardinality(Kids(2)) = 2
    /\ RLess(Zero, scenario_scores[2])
    /\ RLess(scenario_scores[2], One)
    /\ RLess(Zero, HeightOf(ret.filled.nodes, 2))

(***************************************************************************)
(* Properties of the global scale.                                         *)
(***************************************************************************)
ScaleWithinFill(nodes) ==
    /\ RLeq(ScaleOf(nodes), VerticalFill(style_opts))
    /\ RLess(VerticalFill(style_opts), One) => ScaleOf(nodes) # One

Consecutive(nodes, a, b) ==
    /\ a < b
    /\ Depth(tree, nodes[a].id) = Depth(tree, nodes[b].id)
    /\ \A c \in (a + 1)..(b - 1) :
           Depth(tree, nodes[c].id) # Depth(tree, nodes[a].id)

InOrderApart(nodes) ==
    \A a, b \in 1..Len(nodes) :
        Consecutive(nodes, a, b) =>
            /\ nodes[b].y = RAdd(RAdd(nodes[a].y, nodes[a].height),
                                  GapNormalized(style_opts))
            /\ RLeq(RAdd(nodes[a].y, nodes[a].height), nodes[b].y)

AllPositive(nodes) == \A i \in 1..Len(nodes) : RLess(Zero, nodes[i].height)

ScoresInUnit == \A i \in DOMAIN scenario_scores : InUnit(scenario_scores[i])

BandInside(inner, outer) ==
    /\ RLeq(outer.y, inner.y)
    /\ RLeq(inner.y, RAdd(inner.y, inner.height))
    /\ RLeq(RAdd(inner.y, inner.height), RAdd(outer.y, outer.height))

\* C29: within every depth level of the layout output, nodes keep their tree
\* traversal order and never overlap vertically: for consecutive nodes a, b
\* of one level, b.y = a.y + a.height + gap >= a.y + a.height, every
\* single-layer and shadow node height is strictly positive (unscaled height
\* is floored at 0.001), and in dual-layer mode for scores in [0,1] each
\* filled node's band [y, y + height] lies inside its shadow node's band.
C29_LevelsInOrder ==
    /\ (op = "sankey") => InOrderApart(ret.nodes) /\ AllPositive(ret.nodes)
    /\ (op = "scenario_sankey") =>
           /\ InOrderApart(ret.shadow.nodes) /\ AllPositive(ret.shadow.nodes)
           /\ ScoresInUnit =>
                  \A i \in 1..Len(ret.shadow.nodes) :
                      BandInside(ret.filled.nodes[i], ret.shadow.nodes[i])

\* a scenario layout with scores in [0,1] and a gap of 0.1 in which a node
\* of the floored height follows another node of its level
C29_Witness ==
    /\ op = "scenario_sankey"
    /\ ScoresInUnit
    /\ style_opts = StyleWide
    /\ \E a, b \in 1..Len(ret.shadow.nodes) :
         /\ Consecutive(ret.shadow.nodes, a, b)
         /\ ret.shadow.nodes[b].height = RMul(MinWeight, ScaleOf(ret.shadow.nodes))
         /\ RLess(ret.filled.nodes[b].height, ret.shadow.nodes[b].height)

(***************************************************************************)
(* Properties of the weight cache.                                         *)
(***************************************************************************)
\* the cache entry of an item: << >> when it has none
EntryOf(cache, item) ==
    IF UidOf(item) \in DOMAIN cache THEN <<cache[UidOf(item)]>> ELSE << >>

\* what get_weight(item) returns and leaves for the item asked and for the
\* other items, in a step that calls it
CachedCall(item) ==
    /\ EntryOf(weight_cache, item) # << >> =>
           ret'.value = EntryOf(weight_cache, item)[1]
    /\ EntryOf(weight_cache, item) = << >> =>
           ret'.value = get_local_weight_fast(tree.text1[item])
    /\ EntryOf(weight_cache', item) = <<ret'.value>>
    /\ \A other \in Nodes(tree) \ {item} :
           EntryOf(weight_cache', other) = EntryOf(weight_cache, other)

CacheStep ==
    /\ op' = "get_weight" => CachedCall(ret'.item)
    /\ op' = "update_node" => weight_cache' = weight_cache
    /\ op' = "clear" =>
           \A item \in Nodes(tree) : EntryOf(weight_cache', item) = << >>
    /\ (op = "clear" /\ op' = "get_weight") =>
           ret'.value = get_local_weight_fast(tree.text1[ret'.item])

\* C30: TreeItemCache.get_weight is coherent with the tree only between
\* clears: get_weight returns the entry made at the first call for the item
\* since the last clear(), whatever its weight text has become (edits leave
\* the cache alone); with no entry, as immediately after clear(), it returns
\* what get_local_weight_fast gives on the current text and caches it, 0.0
\* for a text that does not parse; and a call for one item leaves the
\* entries of all other items as they were.
C30_CacheCoherent == [][CacheStep]_vars

\* get_weight has answered 0.6 for an item whose text has since become
\* "abc", while the other child holds the entry 0.0 of a text that did not
\* parse
C30_Witness ==
    /\ op = "get_weight"
    /\ ret = [item |-> 2, value |-> <<3, 5>>]
    /\ tree.text1[2] = TxtAbc
    /\ tree.text1[3] = TxtAbc
    /\ EntryOf(weight_cache, 3) = <<Zero>>
    /\ EntryOf(weight_cache, 1) = << >>

=============================================================================
